---- MODULE Spec2Model ----
(***************************************************************************)
(* Clip scheduling and session state of AhPushIt: the Timeline primitive,  *)
(* the two scheduling bridges (Session and MidiManager), the Sequencer and *)
(* the Clip play/stop state machine.                                       *)
(*                                                                         *)
(* Beat times are kept in ticks (TicksPerBeat ticks per beat) so that the  *)
(* fractional beats of the float clock (5.5) are integers.  The sentinel   *)
(* -1.0 of the cue timestamps is NoCue.                                    *)
(*                                                                         *)
(* The objects are wired as the calls in the source expect them: a clip    *)
(* reaches the application through its track, app.seq is the Sequencer,    *)
(* app.session the Session and app.midi_manager the MidiManager, all three *)
(* on the one global timeline.  A clip carries one voice per step.         *)
(***************************************************************************)
EXTENDS Integers, Sequences, FiniteSets, TLC

\* ---------------------------------------------------------------- bounds
NumTracks == 1
NumScenes == 2
MaxBeat == 6
MaxSchedules == 3
MaxPending == 1
ClipSteps == 1
BarMaxBeat == 12
MaxBarsPerQuantize == 3
MaxClipLength == 2
SmallStepDivisions == 2
MaxArrayLen == 32
MaxPosition == 1
MaxObjects == 20
MaxChordSteps == 2
MaxPolyphony == 2

TicksPerBeat == 2

\* ------------------------------------------------------ program constants
BeatsPerBar == 4
MidiNote == 60
ClipBeatsPerBar == 4
DefaultClipLength == 4
DefaultStepDivisions == 16
GridWidth == 8
MaxAmplitude == 127
MaxMidiChannel == 15
SessionTracks == 8
DefaultBpm == 120

Tracks == 0 .. (NumTracks - 1)
Scenes == 0 .. (NumScenes - 1)
Clips == Tracks \X Scenes
\* a clip that has no owning track (Clip.track is None)
NoTrack == 0 - 1
Orphan == <<NoTrack, 0>>
AllClips == Clips \cup {Orphan}
NoCue == 0 - TicksPerBeat
HalfBar == (BeatsPerBar * TicksPerBeat) \div 2
None == 0 - 1
NoteValues == {None, MidiNote}
NoKey == <<"none", 0>>
NoClip == <<0 - 1, 0 - 1>>

\* dict keys as Python distinguishes them: "0", 0 and the Track object;
\* KeysOf(t) are the keys a caller may pass for track t
StrKey(t) == <<"str", t>>
IntKey(t) == <<"int", t>>
ObjKey(t) == <<"obj", t>>
ClipArg(c) == <<"clip", c[1]>>
StrKeys == {StrKey(t) : t \in Tracks}
IntKeys == {IntKey(t) : t \in Tracks}
ObjKeys == {ObjKey(t) : t \in Tracks}
KeysOf(t) == {StrKey(t), IntKey(t)}
ApiKeys == StrKeys \cup IntKeys

VARIABLES
    bridge,             \* which class serves as the scheduling bridge under call
    running,            \* global_timeline.running
    current_time,       \* global_timeline.current_time, in ticks
    tl_tracks,          \* global_timeline.tracks: the schedules live on the timeline
    playing,            \* Clip.playing, per clip
    will_play_at,       \* Clip.will_play_at, per clip (ticks or NoCue)
    will_stop_at,       \* Clip.will_stop_at, per clip (ticks or NoCue)
    notes,              \* Clip.notes, per clip
    track_schedules,    \* Session.track_schedules
    track_clips,        \* Session.track_clips
    pending_actions,    \* Session.pending_actions
    mm_track_schedules, \* MidiManager.track_schedules
    mm_track_clips,     \* MidiManager.track_clips
    mm_pending_actions, \* MidiManager.pending_actions
    clip_attrs,         \* the other Clip attributes, per clip: recording, the
                        \* recording cues, length, divisions, steps, pages,
                        \* durations, amplitudes, clip_status
    tracks,             \* Session.tracks: per Track its device name and its
                        \* clips list
    output_devices,     \* the keys of Session.output_devices and of
                        \* MidiManager.output_devices: the names of the
                        \* ports that initialize_devices opened
    project_file,       \* the project document on disk, NoFile when absent
    seq_settings,       \* app.seq.bpm, app.seq.scale, app.seq.root, app.seq.key
    midi,               \* app.midi_in, app.midi_out, app.notes_midi_in (each
                        \* "None", "null" for the null device or "port" for an
                        \* opened port) and app.midi_out_channel
    modes,              \* app.active_modes, previously_active_mode_for_xor_group
                        \* and, as history, the last mode call and the
                        \* active modes before it
    chord_grid,         \* the notes array of a clip with several voices per
                        \* step, as Sequencer.schedule_clip reads it:
                        \* chord_grid[step][voice]
    threads,            \* the control loop and the callback context inside
                        \* schedule_clip or unschedule_clip of the bridge: per
                        \* thread the statement it is at, its arguments and
                        \* its locals schedule and track
    call_result,        \* history: what the last Clip or Session data call
                        \* returned, and the exception it raised if any
    last_op,            \* history: the bridge or scene call, if it was the last call made
    bar_call            \* the last get_next_bar_boundary call and its result

vars == <<bridge, running, current_time, tl_tracks, playing, will_play_at,
          will_stop_at, notes, track_schedules, track_clips, pending_actions,
          mm_track_schedules, mm_track_clips, mm_pending_actions, clip_attrs,
          tracks, output_devices, project_file, seq_settings, midi, modes, threads,
          chord_grid, call_result, last_op, bar_call>>

timelineVars == <<running, current_time>>
clipVars == <<playing, will_play_at, will_stop_at, notes>>
sessionVars == <<track_schedules, track_clips, pending_actions>>
mmVars == <<mm_track_schedules, mm_track_clips, mm_pending_actions>>
projectVars == <<project_file, seq_settings>>
appVars == <<midi, modes, threads>>
structVars == <<tracks, output_devices, project_file, seq_settings, midi, modes, threads,
                chord_grid, call_result>>

\* ---------------------------------------------------------------- helpers
EmptyMap == [k \in {} |-> 0]
Put(f, k, v) == [x \in (DOMAIN f) \cup {k} |-> IF x = k THEN v ELSE f[x]]
Drop(f, k) == [x \in (DOMAIN f) \ {k} |-> f[x]]
Op(name, key, clip, n, at) == [op |-> name, key |-> key, clip |-> clip, n |-> n, at |-> at]
NoOp == Op("none", NoKey, NoClip, 0, 0)
\* lst[position] of a Python list of len entries is defined for
\* -len <= position < len; a negative position counts from the end
PyIndexOk(position, len) == (0 - len) <= position /\ position < len

\* the place, counted from 1, of lst[position]
PyIndex(position, len) == IF position >= 0 THEN position + 1 ELSE len + position + 1

\* lst[position] = v: the list afterwards and the exception raised
PySetItem(lst, position, v) ==
    IF PyIndexOk(position, Len(lst))
    THEN [lst |-> [lst EXCEPT ![PyIndex(position, Len(lst))] = v], raised |-> "none"]
    ELSE [lst |-> lst, raised |-> "IndexError"]

\* del lst[position], position in range
PyDel(lst, position) ==
    LET k == PyIndex(position, Len(lst))
    IN  SubSeq(lst, 1, k - 1) \o SubSeq(lst, k + 1, Len(lst))

\* the outcome of a call: the value returned, or the exception raised
Returned(v) == [raised |-> "none", value |-> v]
Raised(e) == [raised |-> e, value |-> None]
NoCall == [who |-> "none", bpq |-> 0, at |-> 0, on |-> FALSE, out |-> 0]

\* ------------------------------------------------- the Timeline primitive
\* Timeline.schedule: a new track object, distinct from every live one
FreshId(tl) == CHOOSE i \in 1 .. (Cardinality(tl) + 1) : \A s \in tl : s.id # i

TimelineSchedule(tl, by, key, c, pattern) ==
    tl \cup {[id |-> FreshId(tl), by |-> by, key |-> key, clip |-> c,
              pattern |-> pattern]}

\* Timeline.unschedule(handle)
TimelineUnschedule(tl, id) == {s \in tl : s.id # id}

CanSchedule == Cardinality(tl_tracks) < MaxSchedules

\* ------------------------------------------------------------- Sequencer
\* the notes one step contributes to the lists Sequencer.schedule_clip builds,
\* voices being the notes of the step by voice: the voices that hold a note,
\* in voice order
RECURSIVE Sequencer_step_notes(_)
Sequencer_step_notes(voices) ==
    IF voices = <<>> THEN <<>>
    ELSE IF Head(voices) = None THEN Sequencer_step_notes(Tail(voices))
    ELSE <<Head(voices)>> \o Sequencer_step_notes(Tail(voices))

\* the entries of the note list and of the amplitude list for one step: a
\* rest for a step without notes, the note itself for one note, the tuple of
\* the notes for several; amps are the amplitudes of the step by voice
Sequencer_step_entry(voices, amps) ==
    LET step_notes == Sequencer_step_notes(voices)
        step_amplitudes ==
            Sequencer_step_notes([v \in 1 .. Len(voices) |->
                                      IF voices[v] = None THEN None ELSE amps[v]])
    IN  IF step_notes = <<>>
        THEN [kind |-> "rest", note |-> <<>>, amplitude |-> <<0>>]
        ELSE IF Len(step_notes) > 1
        THEN [kind |-> "chord", note |-> step_notes, amplitude |-> step_amplitudes]
        ELSE [kind |-> "note", note |-> step_notes, amplitude |-> step_amplitudes]

\* the lists with the steps that hold no note left out
Sequencer_lists_OmitRests(steps, grid, amps) ==
    SelectSeq([i \in 1 .. steps |-> Sequencer_step_entry(grid[i], amps[i])],
              LAMBDA e : e.kind # "rest")

\* the lists for a clip of steps steps; grid and amps hold, per step, the
\* notes and the amplitudes by voice
Sequencer_lists(steps, grid, amps) ==
    [i \in 1 .. steps |-> Sequencer_step_entry(grid[i], amps[i])]

\* the note list for a clip with one voice per step: a step with no note
\* becomes a rest (None), a step with a note that note
SequencerNotesList(ns, steps) ==
    [i \in 1 .. steps |->
         LET e == Sequencer_step_entry(<<ns[i]>>, <<0>>)
         IN  IF e.kind = "rest" THEN None ELSE e.note[1]]

\* Sequencer.schedule_clip(clip) raises: the loop over range(clip.steps)
\* reads a step the arrays do not have
Sequencer_schedule_raises(c, ns) == clip_attrs[c].steps > Len(ns)

\* Sequencer.schedule_clip(clip): registers a new schedule; key is the bridge
\* key on whose behalf the call is made (NoKey on the Clip.play path)
Sequencer_schedule_clip(tl, by, key, c, ns) ==
    IF Sequencer_schedule_raises(c, ns) THEN tl
    ELSE TimelineSchedule(tl, by, key, c,
                          [ref |-> FALSE,
                           notes |-> SequencerNotesList(ns, clip_attrs[c].steps)])

\* ------------------------------------------------ bridge: shared shape
\* unschedule_clip that forgets the track_clips entry
Bridge_unschedule_clip_KeepsClip(st, key) ==
    [ts |-> IF key \in DOMAIN st.ts THEN Drop(st.ts, key) ELSE st.ts,
     tc |-> st.tc,
     tl |-> IF key \in DOMAIN st.ts THEN TimelineUnschedule(st.tl, st.ts[key])
            ELSE st.tl]

\* unschedule_clip(track_idx) on a registry st = [ts, tc, tl]
Bridge_unschedule_clip(st, key) ==
    [ts |-> IF key \in DOMAIN st.ts THEN Drop(st.ts, key) ELSE st.ts,
     tc |-> IF key \in DOMAIN st.tc THEN Drop(st.tc, key) ELSE st.tc,
     tl |-> IF key \in DOMAIN st.ts THEN TimelineUnschedule(st.tl, st.ts[key])
            ELSE st.tl]

\* schedule_clip that leaves the registry as it was when it returns early
Bridge_schedule_clip_EarlyReturnKeepsEntry(st, by, key, c, found) ==
    LET u == Bridge_unschedule_clip(st, key)
        tl2 == TimelineSchedule(u.tl, by, key, c, [ref |-> TRUE, notes |-> <<>>])
        h == FreshId(u.tl)
    IN  IF ~found THEN [ts |-> st.ts, tc |-> st.tc, tl |-> u.tl]
        ELSE IF Len(notes[c]) = 0 THEN u
        ELSE [ts |-> Put(u.ts, key, h), tc |-> Put(u.tc, key, c), tl |-> tl2]

\* schedule_clip(track_idx, clip) on a registry st = [ts, tc, tl]; the pattern
\* handed to the timeline is the clip's own note list (ref); found says
\* whether get_output_device resolved the device name bound to the clip's track
Bridge_schedule_clip(st, by, key, c, found) ==
    LET u == Bridge_unschedule_clip(st, key)
        tl2 == TimelineSchedule(u.tl, by, key, c, [ref |-> TRUE, notes |-> <<>>])
        h == FreshId(u.tl)
    IN  IF ~found THEN u
        ELSE IF Len(notes[c]) = 0 THEN u
        ELSE [ts |-> Put(u.ts, key, h), tc |-> Put(u.tc, key, c), tl |-> tl2]

SessionState == [ts |-> track_schedules, tc |-> track_clips, tl |-> tl_tracks]
MMState == [ts |-> mm_track_schedules, tc |-> mm_track_clips, tl |-> tl_tracks]

Session_unschedule_clip(st, key) == Bridge_unschedule_clip(st, key)
Session_schedule_clip(st, key, c, found) == Bridge_schedule_clip(st, "session", key, c, found)
MM_unschedule_clip(st, key) == Bridge_unschedule_clip(st, key)
MM_schedule_clip(st, key, c, found) == Bridge_schedule_clip(st, "mm", key, c, found)

\* the boundary computed without the + 1: the bar line at or before t
NextBoundary_NoNext(t, bpq) ==
    LET q == BeatsPerBar * bpq * TicksPerBeat
    IN  (t \div q) * q

\* get_next_bar_boundary(bars_per_quantize), in ticks
NextBoundary(t, bpq) ==
    LET q == BeatsPerBar * bpq * TicksPerBeat
    IN  ((t \div q) + 1) * q

Session_get_next_bar_boundary(on, t, bpq) == IF ~on THEN 0 ELSE NextBoundary(t, bpq)
MM_get_next_bar_boundary(on, t, bpq) == IF ~on THEN 0 ELSE NextBoundary(t, bpq)

\* Session.reschedule_clip(track_idx, clip): the timeline afterwards.  arg is
\* what the caller passed as track_idx: a str key, a clip, or a Track object
Session_reschedule_effective(ts, arg, c) ==
    \/ arg[1] = "str" /\ arg \in DOMAIN ts /\ playing[c]
    \/ arg[1] = "clip" /\ StrKey(arg[2]) \in DOMAIN ts /\ playing[c]

Session_reschedule_key(arg) == IF arg[1] = "clip" THEN StrKey(arg[2]) ELSE arg

Session_reschedule_clip(tl, ts, arg, c, ns) ==
    IF Session_reschedule_effective(ts, arg, c)
    THEN Sequencer_schedule_clip(tl, "reschedule", Session_reschedule_key(arg), c, ns)
    ELSE tl

\* reschedule_clip that does not look at clip.playing
MM_reschedule_effective_NoPlayingCheck(ts, key, c) == key \in DOMAIN ts

\* MidiManager.reschedule_clip(track_idx, clip)
MM_reschedule_effective(ts, key, c) == key \in DOMAIN ts /\ playing[c]

MM_reschedule_clip(st, key, c, found) ==
    IF MM_reschedule_effective(st.ts, key, c) THEN MM_schedule_clip(st, key, c, found) ELSE st

PendingEntry(beat, action, c) == [beat |-> beat, action |-> action, clip |-> c]

\* ------------------------------------------------------ Clip: derived data
\* int(x) of Python for the exact quotient n / d: truncation towards zero
IntTrunc(n, d) == IF n >= 0 THEN n \div d ELSE 0 - ((0 - n) \div d)

\* math.ceil(n / d)
Ceil(n, d) == 0 - ((0 - n) \div d)

\* [v] * n of Python: the empty list when n <= 0
Rep(v, n) == [i \in 1 .. n |-> v]

\* steps = int((clip_length_in_beats / beats_per_bar) * step_divisions)
Clip_steps(len, div) == IntTrunc(len * div, ClipBeatsPerBar)

\* the pages setter applied to steps / GRID_WIDTH
Clip_pages(steps) == Ceil(steps, GridWidth)

\* Clip.get_status() from playing, the play cues and the other attributes a
Clip_get_status(pl, wpa, wsa, a) ==
    [play_status |->
         IF wpa >= 0 THEN "CLIP_STATUS_CUED_TO_PLAY"
         ELSE IF wsa >= 0 THEN "CLIP_STATUS_CUED_TO_STOP"
         ELSE IF pl THEN "CLIP_STATUS_PLAYING"
         ELSE "CLIP_STATUS_STOPPED",
     record_status |->
         IF a.will_start_recording_at >= 0 THEN "CLIP_STATUS_CUED_TO_RECORD"
         ELSE IF a.will_stop_recording_at >= 0 THEN "CLIP_STATUS_CUED_TO_STOP_RECORDING"
         ELSE IF a.recording THEN "CLIP_STATUS_RECORDING"
         ELSE "CLIP_STATUS_NO_RECORDING",
     empty_status |->
         IF a.clip_length_in_beats = 0 THEN "CLIP_STATUS_IS_EMPTY"
         ELSE "CLIP_STATUS_IS_NOT_EMPTY",
     clip_length |-> a.clip_length_in_beats,
     quantization_step |-> a.current_quantization_step]

\* Clip.is_empty()
Clip_is_empty(pl, wpa, wsa, a) ==
    Clip_get_status(pl, wpa, wsa, a).empty_status = "CLIP_STATUS_IS_EMPTY"

\* ------------------------------------------------ Session: tracks and clips
\* the argument None where an index is expected
NoIndex == 0 - (MaxArrayLen + 1)

\* Clip(parent=track) as the clips lists and the project file see it
NewClip(uid) ==
    [uid |-> uid,
     clip_length_in_beats |-> DefaultClipLength,
     step_divisions |-> DefaultStepDivisions,
     beats_per_bar |-> ClipBeatsPerBar,
     notes |-> Rep(None, Clip_steps(DefaultClipLength, DefaultStepDivisions)),
     durations |-> Rep(None, Clip_steps(DefaultClipLength, DefaultStepDivisions)),
     amplitudes |-> Rep(None, Clip_steps(DefaultClipLength, DefaultStepDivisions))]

\* Track(parent=session): no device yet, one initial clip; uid names the
\* Track object, uid + 1 its clip
NewTrack(uid) == [uid |-> uid, device |-> "", clips |-> <<NewClip(uid + 1)>>]

\* the objects of a tracks list, and an object id not in use
RECURSIVE SeqMax(_)
SeqMax(q) == IF q = <<>> THEN 0
             ELSE LET m == SeqMax(Tail(q)) IN IF Head(q) > m THEN Head(q) ELSE m

TrackMaxUid(tr) == LET m == SeqMax([i \in 1 .. Len(tr.clips) |-> tr.clips[i].uid])
                   IN  IF tr.uid > m THEN tr.uid ELSE m

FreshUid(ts) == 1 + SeqMax([i \in 1 .. Len(ts) |-> TrackMaxUid(ts[i])])

\* Session.__init__: tracks = [Track(parent=self) for _ in range(8)]
InitTracks == [i \in 1 .. SessionTracks |-> NewTrack(2 * i - 1)]

\* Session._add_track(track, position)
Session_add_track(ts, track, position) ==
    IF position = NoIndex THEN Append(ts, track)
    ELSE LET k == IF position >= Len(ts) THEN Len(ts)
                  ELSE IF position >= 0 THEN position
                  ELSE IF Len(ts) + position >= 0 THEN Len(ts) + position ELSE 0
         IN  SubSeq(ts, 1, k) \o <<track>> \o SubSeq(ts, k + 1, Len(ts))

\* Track._add_clip(clip, position) on the clips list cs
Track_add_clip(cs, clip, position) == Session_add_track(cs, clip, position)

\* Session.get_track_by_idx(track_idx): the Track's uid, None when the
\* subscript raised
Session_get_track_by_idx(ts, track_idx) ==
    IF track_idx # NoIndex /\ PyIndexOk(track_idx, Len(ts))
    THEN ts[PyIndex(track_idx, Len(ts))].uid
    ELSE None

\* Session.get_clip_by_idx(track_idx, clip_idx): the Clip's uid or None
Session_get_clip_by_idx(ts, track_idx, clip_idx) ==
    IF track_idx = NoIndex \/ track_idx >= Len(ts) THEN None
    ELSE IF ~PyIndexOk(track_idx, Len(ts)) THEN None
    ELSE LET cs == ts[PyIndex(track_idx, Len(ts))].clips
         IN  IF clip_idx = NoIndex \/ clip_idx >= Len(cs) THEN None
             ELSE IF ~PyIndexOk(clip_idx, Len(cs)) THEN None
             ELSE cs[PyIndex(clip_idx, Len(cs))].uid

\* ------------------------------------------------------------ the project
\* no project file of the name
NoFile == [version |-> "none"]

\* np.float32 nan, what a None becomes in an array of dtype float32
NaN == NoIndex - 1

\* Sequencer.__init__: bpm 120.0, root C, the minor scale, key = Key(root, scale)
InitSeqSettings == [bpm |-> DefaultBpm, scale |-> "minor", root |-> "C",
                    key |-> <<"C", "minor">>]

\* the entry save_project writes for the clip at index c of its track
Project_clip_data(c, clip) ==
    [index |-> c,
     clip_length_in_beats |-> clip.clip_length_in_beats,
     step_divisions |-> clip.step_divisions,
     beats_per_bar |-> clip.beats_per_bar,
     notes |-> clip.notes,
     durations |-> clip.durations,
     amplitudes |-> clip.amplitudes]

\* the entry save_project writes for the track at index t
Project_track_data(t, track) ==
    [index |-> t,
     device |-> track.device,
     clip_data |-> [c \in 1 .. Len(track.clips) |->
                        Project_clip_data(c - 1, track.clips[c])]]

\* ProjectManager.save_project: the document written.  str(key) is kept as
\* the two parts split(' ', 1) gives back, the second one the root followed
\* by the scale
Project_save(ts, seq) ==
    [version |-> "1.0",
     bpm |-> seq.bpm,
     scale |-> seq.scale,
     key |-> <<"key", seq.key>>,
     tracks |-> [t \in 1 .. Len(ts) |-> Project_track_data(t - 1, ts[t])]]

\* np.array(values, dtype=np.float32)
Project_float32(values) ==
    [i \in 1 .. Len(values) |-> IF values[i] = None THEN NaN ELSE values[i]]

\* np.array(values, dtype=np.uint8) raises for a None
Project_uint8_raises(values) == \E i \in 1 .. Len(values) : values[i] = None

\* the clips of the new Track after the clip entries of a track entry: each
\* entry builds a Clip and assigns it to track.clips[index]
RECURSIVE Project_load_clips(_, _, _)
Project_load_clips(cs, entries, uid) ==
    IF entries = <<>> THEN [clips |-> cs, raised |-> "none"]
    ELSE LET e == Head(entries)
             clip == [uid |-> uid,
                      clip_length_in_beats |-> e.clip_length_in_beats,
                      step_divisions |-> e.step_divisions,
                      beats_per_bar |-> e.beats_per_bar,
                      notes |-> e.notes,
                      durations |-> Project_float32(e.durations),
                      amplitudes |-> e.amplitudes]
         IN  IF Project_uint8_raises(e.amplitudes)
             THEN [clips |-> cs, raised |-> "TypeError"]
             ELSE IF e.index = NoIndex THEN [clips |-> cs, raised |-> "KeyError"]
             ELSE IF ~PyIndexOk(e.index, Len(cs))
             THEN [clips |-> cs, raised |-> "IndexError"]
             ELSE Project_load_clips([cs EXCEPT ![PyIndex(e.index, Len(cs))] = clip],
                                     Tail(entries), uid + 1)

\* the loop of load_project over the track entries, on the tracks list ts of
\* the session: the list when the loop ends or is left by an exception
RECURSIVE Project_load_tracks(_, _)
Project_load_tracks(ts, entries) ==
    IF entries = <<>> THEN [tracks |-> ts, raised |-> "none"]
    ELSE LET e == Head(entries)
             uid == FreshUid(ts)
             r == Project_load_clips(NewTrack(uid).clips, e.clip_data, uid + 2)
             track == IF e.device = "" THEN NewTrack(uid)
                      ELSE [uid |-> uid, device |-> e.device, clips |-> r.clips]
         IN  IF e.index = NoIndex THEN [tracks |-> ts, raised |-> "KeyError"]
             ELSE IF e.device # "" /\ r.raised # "none"
             THEN [tracks |-> ts, raised |-> r.raised]
             ELSE IF ~PyIndexOk(e.index, Len(ts))
             THEN [tracks |-> ts, raised |-> "IndexError"]
             ELSE Project_load_tracks([ts EXCEPT ![PyIndex(e.index, Len(ts))] = track],
                                      Tail(entries))

\* ProjectManager.load_project on the document doc: the session and the
\* sequencer settings afterwards, and the value returned.  The session and
\* the sequencer restored after an exception are the objects the call has
\* been writing to
Project_load(doc, ts, seq) ==
    LET seq1 == [seq EXCEPT !.bpm = doc.bpm]
        seq2 == [seq1 EXCEPT !.scale = doc.scale, !.root = doc.key[2][1]]
        r == Project_load_tracks(ts, doc.tracks)
    IN  IF doc = NoFile THEN [tracks |-> ts, seq |-> seq, ok |-> FALSE]
        ELSE IF Len(doc.key) < 2 THEN [tracks |-> ts, seq |-> seq1, ok |-> FALSE]
        ELSE [tracks |-> r.tracks, seq |-> seq2, ok |-> r.raised = "none"]

\* --------------------------------------------------- the app: MIDI ports
\* PyshaApp.__init__: the three ports are the null devices, the out channel
\* comes from the settings (0 when the settings have none)
InitMidi == [midi_in |-> "null", midi_out |-> "null", notes_midi_in |-> "null",
             midi_out_channel |-> 0]

\* init_midi_in, init_midi_out and init_notes_midi_in, on the port cur they
\* replace.  device is "None" for device_name None, "unmatched" when no
\* available name contains device_name, "matched" otherwise; open_ok tells
\* whether mido opens the port or raises IOError.  hasattr(port, '_closed')
\* holds of the null devices only
App_init_midi(cur, device, open_ok) ==
    LET port == IF device = "matched" THEN (IF open_ok THEN "port" ELSE cur)
                ELSE IF device = "unmatched" THEN cur
                ELSE IF cur = "port" THEN "null" ELSE cur
    IN  IF port = "None" \/ port = "null" THEN "null" ELSE port

\* set_midi_out_channel(channel, wrap)
App_set_midi_out_channel(channel, wrap) ==
    IF channel < 0 - 1 THEN (IF wrap THEN MaxMidiChannel ELSE 0 - 1)
    ELSE IF channel > MaxMidiChannel THEN (IF wrap THEN 0 - 1 ELSE MaxMidiChannel)
    ELSE channel

\* send_midi: the channel given to msg.copy for a message that has one and
\* does not keep its own.  info is the midi_channel of
\* get_current_track_info(), or None when that lookup raises
App_send_midi_channel(midi_out_channel, info) ==
    IF midi_out_channel # 0 - 1 THEN midi_out_channel
    ELSE IF info = None THEN 0
    ELSE IF info = 0 - 1 THEN 0
    ELSE info - 1

\* send_midi(msg, use_original_msg_channel): msg.copy is called outside the
\* try block and raises ValueError for a channel outside 0..15; what the
\* port raises in send is caught
App_send_midi(m, has_channel, use_original_msg_channel, info) ==
    IF ~use_original_msg_channel /\ has_channel
       /\ App_send_midi_channel(m.midi_out_channel, info) \notin 0 .. MaxMidiChannel
    THEN Raised("ValueError")
    ELSE Returned(None)

\* ----------------------------------------------------------- the app: modes
PadsModes == {"melodic_mode", "clip_triggering_mode", "clip_edit_mode"}
MelodicVariants == {"rhyhtmic_mode", "slice_notes_mode"}
OtherModes == {"main_controls_mode", "track_selection_mode", "midi_cc_mode"}

\* mode.xor_group; variants is the xor_group of the rhythmic and slice notes
\* modes
XorGroup(mode, variants) ==
    IF mode \in PadsModes THEN "pads"
    ELSE IF mode \in MelodicVariants THEN variants
    ELSE "None"

\* init_modes: set_melodic_mode() on [main_controls_mode], then clip_edit_mode,
\* track_selection_mode and midi_cc_mode appended to active_modes
InitModes(variants) ==
    [active |-> <<"main_controls_mode", "melodic_mode", "clip_edit_mode",
                  "track_selection_mode", "midi_cc_mode">>,
     previous |-> "None",
     variants |-> variants,
     call |-> "init_modes", arg |-> "None", before |-> <<>>]

IsModeActive(active, mode) == \E i \in 1 .. Len(active) : active[i] = mode

\* set_mode_for_xor_group(mode_to_set) on the record st: active and previous
\* afterwards.  previous is previously_active_mode_for_xor_group['pads'], the
\* one group there is
App_set_mode_for_xor_group(st, mode_to_set) ==
    LET g == XorGroup(mode_to_set, st.variants)
        InGroup(mode) == XorGroup(mode, st.variants) # "None"
                         /\ XorGroup(mode, st.variants) = g
        deactivated == SelectSeq(st.active, InGroup)
        Kept(mode) == ~InGroup(mode)
    IN  IF IsModeActive(st.active, mode_to_set) THEN st
        ELSE [st EXCEPT
                 !.active = Append(SelectSeq(st.active, Kept), mode_to_set),
                 !.previous = IF deactivated # <<>>
                              THEN deactivated[Len(deactivated)] ELSE @]

\* unset_mode_for_xor_group(mode_to_unset)
App_unset_mode_for_xor_group(st, mode_to_unset) ==
    LET g == XorGroup(mode_to_unset, st.variants)
        Others(mode) == mode # mode_to_unset
        st1 == [st EXCEPT !.active = SelectSeq(st.active, Others)]
        previous_mode == IF g = "pads" THEN st.previous ELSE "None"
    IN  IF ~IsModeActive(st.active, mode_to_unset) THEN st
        ELSE IF previous_mode # "None"
        THEN App_set_mode_for_xor_group([st1 EXCEPT !.previous = "None"], previous_mode)
        ELSE IF g = "pads" THEN App_set_mode_for_xor_group(st1, "melodic_mode")
        ELSE st1

\* toggle_melodic_rhythmic_slice_modes()
App_toggle_melodic_rhythmic_slice_modes(st) ==
    IF IsModeActive(st.active, "melodic_mode")
    THEN App_set_mode_for_xor_group(st, "rhyhtmic_mode")
    ELSE IF IsModeActive(st.active, "rhyhtmic_mode")
    THEN App_set_mode_for_xor_group(st, "slice_notes_mode")
    ELSE App_set_mode_for_xor_group(st, "melodic_mode")

\* ------------------------------------------------------------------- Init
InitSteps == Clip_steps(DefaultClipLength, DefaultStepDivisions)

\* the attributes Clip.__init__ sets before it computes clip_status
InitData ==
    [recording |-> FALSE,
     will_start_recording_at |-> NoCue,
     will_stop_recording_at |-> NoCue,
     clip_length_in_beats |-> DefaultClipLength,
     step_divisions |-> DefaultStepDivisions,
     current_quantization_step |-> 0]

\* pages starts as steps / GRID_WIDTH, which is exact for the defaults
InitAttrs ==
    [recording |-> InitData.recording,
     will_start_recording_at |-> InitData.will_start_recording_at,
     will_stop_recording_at |-> InitData.will_stop_recording_at,
     clip_length_in_beats |-> InitData.clip_length_in_beats,
     step_divisions |-> InitData.step_divisions,
     current_quantization_step |-> InitData.current_quantization_step,
     steps |-> InitSteps,
     pages |-> InitSteps \div GridWidth,
     durations |-> Rep(None, InitSteps),
     amplitudes |-> Rep(None, InitSteps),
     clip_status |-> Clip_get_status(FALSE, NoCue, NoCue, InitData)]

InitNotes == [c \in AllClips |-> Rep(None, InitSteps)]

\* ------------------------------------------------- the bridge, two threads
\* schedule_clip and unschedule_clip of the bridge run statement by statement;
\* the bridge takes no lock, so the statements of the control loop and of a
\* callback context interleave.  A thread holds its arguments (key, clip, and
\* found: whether get_output_device returns a device) and the locals schedule
\* (of unschedule_clip) and track (of schedule_clip)
ThreadIds == {"control_loop", "callback"}

InitThread ==
    [pc |-> "idle", op |-> "none", key |-> NoKey, clip |-> NoClip, found |-> FALSE,
     schedule |-> None, track |-> None]

InitThreads == [t \in ThreadIds |-> InitThread]

\* one statement of unschedule_clip or of schedule_clip run by the thread th
\* on the registry st = [ts, tc, tl]; h is the handle timeline.schedule
\* returns.  A dict read or del of a key another thread deleted raises
\* KeyError and ends the call
Bridge_step(st, th, by, h) ==
    LET at(pc) == [th EXCEPT !.pc = pc]
        goes(st2, th2) == [st |-> st2, th |-> th2, raised |-> "none"]
        raises == [st |-> st, th |-> InitThread, raised |-> "KeyError"]
        unscheduled == IF th.op = "schedule_clip" THEN at("lookup") ELSE InitThread
    IN  CASE th.pc = "test_schedules" ->
                 goes(st, IF th.key \in DOMAIN st.ts THEN at("read_schedule")
                          ELSE at("test_clips"))
          [] th.pc = "read_schedule" ->
                 IF th.key \in DOMAIN st.ts
                 THEN goes(st, [th EXCEPT !.pc = "unschedule", !.schedule = st.ts[th.key]])
                 ELSE raises
          [] th.pc = "unschedule" ->
                 goes([st EXCEPT !.tl = TimelineUnschedule(@, th.schedule)],
                      at("del_schedule"))
          [] th.pc = "del_schedule" ->
                 IF th.key \in DOMAIN st.ts
                 THEN goes([st EXCEPT !.ts = Drop(@, th.key)], at("test_clips"))
                 ELSE raises
          [] th.pc = "test_clips" ->
                 goes(st, IF th.key \in DOMAIN st.tc THEN at("del_clip") ELSE unscheduled)
          [] th.pc = "del_clip" ->
                 IF th.key \in DOMAIN st.tc
                 THEN goes([st EXCEPT !.tc = Drop(@, th.key)], unscheduled)
                 ELSE raises
          [] th.pc = "lookup" ->
                 goes(st, IF ~th.found \/ Len(notes[th.clip]) = 0 THEN InitThread
                          ELSE at("schedule"))
          [] th.pc = "schedule" ->
                 goes([st EXCEPT !.tl = @ \cup {[id |-> h, by |-> by, key |-> th.key,
                                                 clip |-> th.clip,
                                                 pattern |-> [ref |-> TRUE, notes |-> <<>>]]}],
                      [th EXCEPT !.pc = "store_schedule", !.track = h])
          [] th.pc = "store_schedule" ->
                 goes([st EXCEPT !.ts = Put(@, th.key, th.track)], at("store_clip"))
          [] th.pc = "store_clip" ->
                 goes([st EXCEPT !.tc = Put(@, th.key, th.clip)], InitThread)

\* nothing scheduled, nothing cued, no call made yet
InitIdle ==
    /\ tl_tracks = {}
    /\ playing = [c \in AllClips |-> FALSE]
    /\ will_play_at = [c \in AllClips |-> NoCue]
    /\ will_stop_at = [c \in AllClips |-> NoCue]
    /\ track_schedules = EmptyMap
    /\ track_clips = EmptyMap
    /\ pending_actions = <<>>
    /\ mm_track_schedules = EmptyMap
    /\ mm_track_clips = EmptyMap
    /\ mm_pending_actions = <<>>
    /\ project_file = NoFile
    /\ seq_settings = InitSeqSettings
    /\ midi = InitMidi
    /\ modes = InitModes("pads")
    /\ chord_grid = <<>>
    /\ call_result = Returned(None)
    /\ threads = InitThreads
    /\ last_op = NoOp
    /\ bar_call = NoCall

\* the tracks of a new session; no port is open
InitSession ==
    /\ tracks = InitTracks
    /\ output_devices = {}

InitCommon ==
    /\ notes = InitNotes
    /\ clip_attrs = [c \in AllClips |-> InitAttrs]
    /\ InitSession
    /\ InitIdle

Init ==
    /\ bridge = "session"
    /\ running = FALSE
    /\ current_time = 0
    /\ InitCommon

\* --------------------------------------------------------------- Timeline
\* the clock thread of the running timeline advances the beat
Tick ==
    /\ running
    /\ current_time + HalfBar <= MaxBeat * TicksPerBeat
    /\ current_time' = current_time + HalfBar
    /\ UNCHANGED <<bridge, structVars, clip_attrs, running, tl_tracks, clipVars, sessionVars, mmVars,
                   last_op, bar_call>>

SessionStartTimeline ==
    /\ running' = TRUE
    /\ last_op' = NoOp
    /\ UNCHANGED <<bridge, structVars, clip_attrs, current_time, tl_tracks, clipVars, sessionVars,
                   mmVars, bar_call>>

SessionStopTimeline ==
    /\ running' = FALSE
    /\ last_op' = NoOp
    /\ UNCHANGED <<bridge, structVars, clip_attrs, current_time, tl_tracks, clipVars, sessionVars,
                   mmVars, bar_call>>

SessionResetTimeline ==
    /\ current_time' = 0
    /\ last_op' = NoOp
    /\ UNCHANGED <<bridge, structVars, clip_attrs, running, tl_tracks, clipVars, sessionVars,
                   mmVars, bar_call>>

MMStartTimeline ==
    /\ running' = TRUE
    /\ last_op' = NoOp
    /\ UNCHANGED <<bridge, structVars, clip_attrs, current_time, tl_tracks, clipVars, sessionVars,
                   mmVars, bar_call>>

MMStopTimeline ==
    /\ running' = FALSE
    /\ last_op' = NoOp
    /\ UNCHANGED <<bridge, structVars, clip_attrs, current_time, tl_tracks, clipVars, sessionVars,
                   mmVars, bar_call>>

MMResetTimeline ==
    /\ current_time' = 0
    /\ last_op' = NoOp
    /\ UNCHANGED <<bridge, structVars, clip_attrs, running, tl_tracks, clipVars, sessionVars,
                   mmVars, bar_call>>

\* MainControlsMode.on_button_pressed(PLAY_BUTTON), shift held or not
PlayButton(shift) ==
    /\ IF running
       THEN /\ running' = FALSE
            /\ current_time' = IF shift THEN 0 ELSE current_time
       ELSE /\ running' = TRUE
            /\ current_time' = current_time
    /\ last_op' = NoOp
    /\ UNCHANGED <<bridge, structVars, clip_attrs, tl_tracks, clipVars, sessionVars, mmVars, bar_call>>

\* ---------------------------------------------------------------- Session
SessionScheduleClip(key, c, found) ==
    LET r == Session_schedule_clip(SessionState, key, c, found)
    IN  /\ CanSchedule
        /\ track_schedules' = r.ts
        /\ track_clips' = r.tc
        /\ tl_tracks' = r.tl
        /\ last_op' = NoOp
        /\ UNCHANGED <<bridge, structVars, clip_attrs, timelineVars, clipVars, pending_actions,
                       mmVars, bar_call>>

SessionUnscheduleClip(key) ==
    LET r == Session_unschedule_clip(SessionState, key)
    IN  /\ track_schedules' = r.ts
        /\ track_clips' = r.tc
        /\ tl_tracks' = r.tl
        /\ last_op' = Op("unschedule_clip", key, NoClip, 0, 0)
        /\ UNCHANGED <<bridge, structVars, clip_attrs, timelineVars, clipVars, pending_actions,
                       mmVars, bar_call>>

SessionRescheduleClip(arg, c) ==
    /\ Session_reschedule_effective(track_schedules, arg, c) => CanSchedule
    /\ tl_tracks' = Session_reschedule_clip(tl_tracks, track_schedules, arg, c, notes[c])
    /\ last_op' = Op("reschedule_clip", arg, c, 0, 0)
    /\ UNCHANGED <<bridge, structVars, clip_attrs, timelineVars, clipVars, sessionVars, mmVars, bar_call>>

SessionScheduleClipStart(c, quantized) ==
    /\ IF quantized /\ running
       THEN LET next_beat == Session_get_next_bar_boundary(running, current_time, 1)
            IN  /\ Len(pending_actions) < MaxPending
                /\ will_play_at' = [will_play_at EXCEPT ![c] = next_beat]
                /\ pending_actions' = Append(pending_actions,
                                             PendingEntry(next_beat, "start", c))
                /\ UNCHANGED <<bridge, structVars, clip_attrs, tl_tracks, playing>>
       ELSE /\ CanSchedule
            /\ tl_tracks' = Sequencer_schedule_clip(tl_tracks, "start", NoKey, c, notes[c])
            /\ playing' = [playing EXCEPT ![c] = TRUE]
            /\ UNCHANGED <<bridge, structVars, clip_attrs, will_play_at, pending_actions>>
    /\ last_op' = NoOp
    /\ UNCHANGED <<bridge, structVars, clip_attrs, timelineVars, will_stop_at, notes, track_schedules,
                   track_clips, mmVars, bar_call>>

\* the effect of Session.schedule_clip_stop(clip, quantized) on the fields it
\* writes; Clip.stop calls it and then overwrites will_stop_at
Session_schedule_clip_stop(c, quantized) ==
    IF quantized /\ running
    THEN LET next_beat == Session_get_next_bar_boundary(running, current_time, 1)
         IN  [wsa |-> [will_stop_at EXCEPT ![c] = next_beat],
              pa |-> Append(pending_actions, PendingEntry(next_beat, "stop", c)),
              st |-> SessionState,
              pl |-> playing]
    ELSE [wsa |-> will_stop_at,
          pa |-> pending_actions,
          st |-> Session_unschedule_clip(SessionState, IntKey(c[1])),
          pl |-> [playing EXCEPT ![c] = FALSE]]

SessionScheduleClipStop(c, quantized) ==
    LET r == Session_schedule_clip_stop(c, quantized)
    IN  /\ (quantized /\ running) => Len(pending_actions) < MaxPending
        /\ will_stop_at' = r.wsa
        /\ pending_actions' = r.pa
        /\ track_schedules' = r.st.ts
        /\ track_clips' = r.st.tc
        /\ tl_tracks' = r.st.tl
        /\ playing' = r.pl
        /\ last_op' = NoOp
        /\ UNCHANGED <<bridge, structVars, clip_attrs, timelineVars, will_play_at, notes, mmVars, bar_call>>

\* Session.scene_play(scene_number)
ScenePlay(s) ==
    /\ last_op' = Op("scene_play", NoKey, NoClip, s, current_time)
    /\ UNCHANGED <<bridge, structVars, clip_attrs, timelineVars, tl_tracks, clipVars, sessionVars,
                   mmVars, bar_call>>

\* ------------------------------------------------------------------- Clip
\* Clip.play() without the check for a missing track
Clip_play_NoTrackCheck(c) ==
    /\ CanSchedule
    /\ tl_tracks' = Sequencer_schedule_clip(tl_tracks, "play", NoKey, c, notes[c])
    /\ will_play_at' = [will_play_at EXCEPT ![c] = 0]
    /\ clip_attrs' = [clip_attrs EXCEPT ![c].clip_status =
                          Clip_get_status(playing[c], 0, will_stop_at[c], clip_attrs[c])]
    /\ UNCHANGED <<playing, will_stop_at, sessionVars>>

\* Clip.play(): what it does to the fields Clip.play and Clip.stop write
Clip_play(c) ==
    IF c[1] = NoTrack \/ Sequencer_schedule_raises(c, notes[c])
    THEN UNCHANGED <<tl_tracks, playing, will_play_at, will_stop_at, clip_attrs,
                     sessionVars>>
    ELSE /\ CanSchedule
         /\ tl_tracks' = Sequencer_schedule_clip(tl_tracks, "play", NoKey, c, notes[c])
         /\ will_play_at' = [will_play_at EXCEPT ![c] = 0]
         /\ clip_attrs' = [clip_attrs EXCEPT ![c].clip_status =
                               Clip_get_status(playing[c], 0, will_stop_at[c],
                                               clip_attrs[c])]
         /\ UNCHANGED <<playing, will_stop_at, sessionVars>>

\* Clip.stop(): what it does to the fields Clip.play and Clip.stop write
Clip_stop(c) ==
    IF c[1] = NoTrack
    THEN UNCHANGED <<tl_tracks, playing, will_play_at, will_stop_at, clip_attrs,
                     sessionVars>>
    ELSE LET r == Session_schedule_clip_stop(c, TRUE)
         IN  /\ running => Len(pending_actions) < MaxPending
             /\ will_stop_at' = [r.wsa EXCEPT ![c] = 0]
             /\ pending_actions' = r.pa
             /\ track_schedules' = r.st.ts
             /\ track_clips' = r.st.tc
             /\ tl_tracks' = r.st.tl
             /\ playing' = r.pl
             /\ clip_attrs' = [clip_attrs EXCEPT ![c].clip_status =
                                   Clip_get_status(r.pl[c], will_play_at[c], 0,
                                                   clip_attrs[c])]
             /\ UNCHANGED will_play_at

ClipPlay(c) ==
    /\ Clip_play(c)
    /\ last_op' = Op("play", NoKey, c, 0, current_time)
    /\ UNCHANGED <<bridge, structVars, timelineVars, notes, mmVars, bar_call>>

ClipStop(c) ==
    /\ Clip_stop(c)
    /\ last_op' = NoOp
    /\ UNCHANGED <<bridge, structVars, timelineVars, notes, mmVars, bar_call>>

\* Clip.play_stop(); the history records whether the clip was stopped
\* (get_status().play_status) when the pad was pressed
ClipPlayStop(c) ==
    /\ IF c[1] = NoTrack
       THEN UNCHANGED <<tl_tracks, playing, will_play_at, will_stop_at, clip_attrs,
                        sessionVars>>
       ELSE IF playing[c] THEN Clip_stop(c) ELSE Clip_play(c)
    /\ last_op' = Op("play_stop", NoKey, c,
                     IF Clip_get_status(playing[c], will_play_at[c], will_stop_at[c],
                                        clip_attrs[c]).play_status = "CLIP_STATUS_STOPPED"
                     THEN 1 ELSE 0,
                     current_time)
    /\ UNCHANGED <<bridge, structVars, timelineVars, notes, mmVars, bar_call>>

\* record_on_off that cues the recording instead of toggling it
Clip_record_on_off_Cued(a, pl, wpa, wsa) ==
    LET b == [a EXCEPT !.will_start_recording_at = 0]
    IN  [b EXCEPT !.clip_status = Clip_get_status(pl, wpa, wsa, b)]

\* Clip.record_on_off() on the attributes a of a clip that has a track
Clip_record_on_off(a, pl, wpa, wsa) ==
    LET b == [a EXCEPT !.recording = ~a.recording]
    IN  [b EXCEPT !.clip_status = Clip_get_status(pl, wpa, wsa, b)]

\* Clip.record_on_off(); the history numbers consecutive calls 0, 1, 0, ...
ClipRecordOnOff(c) ==
    /\ clip_attrs' =
           IF c[1] = NoTrack THEN clip_attrs
           ELSE [clip_attrs EXCEPT ![c] = Clip_record_on_off(clip_attrs[c], playing[c],
                                                            will_play_at[c],
                                                            will_stop_at[c])]
    /\ last_op' = Op("record_on_off", NoKey, c,
                     IF last_op.op = "record_on_off" THEN 1 - last_op.n ELSE 0, 0)
    /\ UNCHANGED <<bridge, structVars, timelineVars, tl_tracks, clipVars, sessionVars, mmVars,
                   bar_call>>

\* ------------------------------------------- Clip: position-addressed data
\* get_note_at_position, get_duration_at_position, get_amplitude_at_position
\* on the array lst
Clip_get_at_position(lst, position) ==
    IF 0 <= position /\ position < Len(lst)
    THEN Returned(lst[position + 1])
    ELSE Raised("IndexError")

\* Clip.set_note_at_position(position, note): the assignment, unguarded
Clip_set_note_at_position(ns, position, note) == PySetItem(ns, position, note)

\* Clip.set_duration_at_position and Clip.set_amplitude_at_position on the
\* array lst: append beyond the length, the unguarded assignment otherwise
Clip_set_value_at_position(lst, position, v) ==
    IF position > Len(lst)
    THEN [lst |-> Append(lst, v), raised |-> "none"]
    ELSE PySetItem(lst, position, v)

\* Clip._reschedule_if_playing(): the timeline afterwards
Clip_reschedule_if_playing(c, ns) ==
    IF playing[c]
    THEN Session_reschedule_clip(tl_tracks, track_schedules, ObjKey(c[1]), c, ns)
    ELSE tl_tracks

\* Clip.set_note_at_position(position, note), Clip._reschedule_if_playing included
ClipSetNoteAtPosition(c, position, note) ==
    LET r == Clip_set_note_at_position(notes[c], position, note)
    IN  /\ notes' = [notes EXCEPT ![c] = r.lst]
        /\ tl_tracks' = IF r.raised = "none" THEN Clip_reschedule_if_playing(c, r.lst)
                        ELSE tl_tracks
        /\ call_result' = IF r.raised = "none" THEN Returned(None) ELSE Raised(r.raised)
        /\ last_op' = Op("set_note_at_position", NoKey, c, position, 0)
        /\ UNCHANGED <<bridge, tracks, output_devices, projectVars, appVars, chord_grid, clip_attrs, timelineVars, playing, will_play_at, will_stop_at,
                       sessionVars, mmVars, bar_call>>

\* the three arrays of clip c and the exception a call raised
ClipData(ns, ds, as, e) == [notes |-> ns, durations |-> ds, amplitudes |-> as, raised |-> e]

\* int(midi_velocity * 127), midi_velocity given as a count of 127ths
Clip_amplitude(midi_velocity) == IntTrunc(midi_velocity * MaxAmplitude, MaxAmplitude)

\* Clip.remove_sequence_event(position)
Clip_remove_sequence_event(ns, ds, as, position) ==
    IF 0 <= position /\ position < Len(ns)
    THEN ClipData(PyDel(ns, position),
                  IF position < Len(ds) THEN PyDel(ds, position) ELSE ds,
                  IF position < Len(as) THEN PyDel(as, position) ELSE as,
                  "none")
    ELSE ClipData(ns, ds, as, "IndexError")

\* Clip.edit_sequence_event(position, midi_note, midi_velocity, duration): an
\* argument that is None is not applied; an assignment that raises ends the
\* call and keeps the assignments made before it
Clip_edit_sequence_event(ns, ds, as, position, midi_note, midi_velocity, duration) ==
    LET n2 == IF midi_note # None THEN PySetItem(ns, position, midi_note)
              ELSE [lst |-> ns, raised |-> "none"]
        d2 == IF duration # None THEN PySetItem(ds, position, duration)
              ELSE [lst |-> ds, raised |-> "none"]
        a2 == IF midi_velocity # None
              THEN PySetItem(as, position, Clip_amplitude(midi_velocity))
              ELSE [lst |-> as, raised |-> "none"]
    IN  IF ~(0 <= position /\ position < Len(ns)) THEN ClipData(ns, ds, as, "IndexError")
        ELSE IF d2.raised # "none" THEN ClipData(n2.lst, ds, as, d2.raised)
        ELSE IF a2.raised # "none" THEN ClipData(n2.lst, d2.lst, as, a2.raised)
        ELSE ClipData(n2.lst, d2.lst, a2.lst, "none")

\* Clip.add_sequence_note_event(midi_note, midi_velocity, timestamp, duration):
\* the position written is len(notes), whatever the timestamp
Clip_add_sequence_note_event(ns, ds, as, midi_note, midi_velocity, duration) ==
    LET position == Len(ns)
        n2 == IF position = 0 THEN [lst |-> Append(ns, midi_note), raised |-> "none"]
              ELSE PySetItem(ns, position, midi_note)
        d2 == PySetItem(ds, position, duration)
        a2 == PySetItem(as, position, Clip_amplitude(midi_velocity))
    IN  IF n2.raised # "none" THEN ClipData(ns, ds, as, n2.raised)
        ELSE IF d2.raised # "none" THEN ClipData(n2.lst, ds, as, d2.raised)
        ELSE IF a2.raised # "none" THEN ClipData(n2.lst, d2.lst, as, a2.raised)
        ELSE ClipData(n2.lst, d2.lst, a2.lst, "none")

\* the frame of a call on the arrays of clip c with outcome r, the reschedule
\* of a playing clip included
ClipDataCall(c, r) ==
    /\ notes' = [notes EXCEPT ![c] = r.notes]
    /\ clip_attrs' = [clip_attrs EXCEPT ![c].durations = r.durations,
                                        ![c].amplitudes = r.amplitudes]
    /\ tl_tracks' = IF r.raised = "none" THEN Clip_reschedule_if_playing(c, r.notes)
                    ELSE tl_tracks
    /\ call_result' = IF r.raised = "none" THEN Returned(None) ELSE Raised(r.raised)
    /\ UNCHANGED <<bridge, tracks, output_devices, projectVars, appVars, chord_grid, timelineVars, playing, will_play_at, will_stop_at,
                   sessionVars, mmVars, bar_call>>

\* clip.get_note_at_position(position), get_duration_at_position,
\* get_amplitude_at_position: which names the array
ClipGetAtPosition(c, which, position) ==
    /\ call_result' = Clip_get_at_position(
                          IF which = "note" THEN notes[c]
                          ELSE IF which = "duration" THEN clip_attrs[c].durations
                          ELSE clip_attrs[c].amplitudes, position)
    /\ last_op' = Op("get_" \o which \o "_at_position", NoKey, c, position, 0)
    /\ UNCHANGED <<bridge, tracks, output_devices, projectVars, appVars, chord_grid, clip_attrs, timelineVars, tl_tracks, clipVars, sessionVars,
                   mmVars, bar_call>>

ClipSetDurationAtPosition(c, position, duration) ==
    LET r == Clip_set_value_at_position(clip_attrs[c].durations, position, duration)
    IN  /\ ClipDataCall(c, ClipData(notes[c], r.lst, clip_attrs[c].amplitudes, r.raised))
        /\ last_op' = Op("set_duration_at_position", NoKey, c, position, 0)

ClipSetAmplitudeAtPosition(c, position, amplitude) ==
    LET r == Clip_set_value_at_position(clip_attrs[c].amplitudes, position, amplitude)
    IN  /\ ClipDataCall(c, ClipData(notes[c], clip_attrs[c].durations, r.lst, r.raised))
        /\ last_op' = Op("set_amplitude_at_position", NoKey, c, position, 0)

ClipRemoveSequenceEvent(c, position) ==
    /\ ClipDataCall(c, Clip_remove_sequence_event(notes[c], clip_attrs[c].durations,
                                                  clip_attrs[c].amplitudes, position))
    /\ last_op' = Op("remove_sequence_event", NoKey, c, position, 0)

ClipEditSequenceEvent(c, position, midi_note, midi_velocity, duration) ==
    /\ ClipDataCall(c, Clip_edit_sequence_event(notes[c], clip_attrs[c].durations,
                                                clip_attrs[c].amplitudes, position,
                                                midi_note, midi_velocity, duration))
    /\ last_op' = Op("edit_sequence_event", NoKey, c, position, 0)

\* clip.add_sequence_note_event(midi_note, midi_velocity, timestamp, duration),
\* step being the step the timestamp names
ClipAddSequenceNoteEvent(c, step, midi_note, midi_velocity, duration) ==
    /\ ClipDataCall(c, Clip_add_sequence_note_event(notes[c], clip_attrs[c].durations,
                                                    clip_attrs[c].amplitudes, midi_note,
                                                    midi_velocity, duration))
    /\ last_op' = Op("add_sequence_note_event", NoKey, c, step, 0)

\* the number a call of the operation name on clip c gets in the history:
\* consecutive calls of one operation on one clip are numbered 0, 1, 0, ...
CallNo(name, c) ==
    IF last_op.op = name /\ last_op.clip = c THEN 1 - last_op.n ELSE 0

\* Clip.clear()
Clip_clear(a) ==
    [a EXCEPT !.durations = Rep(None, a.steps), !.amplitudes = Rep(None, a.steps)]

ClipClear(c) ==
    /\ notes' = [notes EXCEPT ![c] = Rep(None, clip_attrs[c].steps)]
    /\ clip_attrs' = [clip_attrs EXCEPT ![c] = Clip_clear(clip_attrs[c])]
    /\ last_op' = Op("clear", NoKey, c, CallNo("clear", c), 0)
    /\ UNCHANGED <<bridge, structVars, timelineVars, tl_tracks, playing, will_play_at,
                   will_stop_at, sessionVars, mmVars, bar_call>>

\* Clip.double()
Clip_double(a) ==
    [a EXCEPT !.durations = a.durations \o a.durations,
              !.amplitudes = a.amplitudes \o a.amplitudes]

ClipDouble(c) ==
    /\ 2 * Len(notes[c]) <= MaxArrayLen
    /\ notes' = [notes EXCEPT ![c] = notes[c] \o notes[c]]
    /\ clip_attrs' = [clip_attrs EXCEPT ![c] = Clip_double(clip_attrs[c])]
    /\ last_op' = Op("double", NoKey, c, CallNo("double", c), 0)
    /\ UNCHANGED <<bridge, structVars, timelineVars, tl_tracks, playing, will_play_at,
                   will_stop_at, sessionVars, mmVars, bar_call>>

\* the clip_length_in_beats setter: steps and pages follow the new length
Clip_set_clip_length_in_beats(a, value) ==
    LET steps == Clip_steps(value, a.step_divisions)
    IN  [a EXCEPT !.clip_length_in_beats = value,
                  !.steps = steps,
                  !.pages = Clip_pages(steps)]

\* the step_divisions setter: steps and pages follow the new divisions
Clip_set_step_divisions(a, value) ==
    LET steps == Clip_steps(a.clip_length_in_beats, value)
    IN  [a EXCEPT !.step_divisions = value,
                  !.steps = steps,
                  !.pages = Clip_pages(steps)]

\* Clip.set_length(new_length)
ClipSetLength(c, new_length) ==
    /\ clip_attrs' = [clip_attrs EXCEPT ![c] =
                          Clip_set_clip_length_in_beats(clip_attrs[c], new_length)]
    /\ last_op' = Op("set_length", NoKey, c, CallNo("set_length", c), 0)
    /\ UNCHANGED <<bridge, structVars, timelineVars, tl_tracks, clipVars, sessionVars, mmVars,
                   bar_call>>

\* clip.step_divisions = value
ClipSetStepDivisions(c, value) ==
    /\ clip_attrs' = [clip_attrs EXCEPT ![c] =
                          Clip_set_step_divisions(clip_attrs[c], value)]
    /\ last_op' = Op("step_divisions", NoKey, c, CallNo("step_divisions", c), 0)
    /\ UNCHANGED <<bridge, structVars, timelineVars, tl_tracks, clipVars, sessionVars, mmVars,
                   bar_call>>

\* ---------------------------------------------- Session: tracks and clips
\* the frame of a call that touches only Session.tracks
SessionDataFrame ==
    UNCHANGED <<bridge, output_devices, projectVars, appVars, chord_grid, clip_attrs, timelineVars, tl_tracks, clipVars, sessionVars,
                mmVars, bar_call>>

SessionGetTrackByIdx(track_idx) ==
    /\ call_result' = Returned(Session_get_track_by_idx(tracks, track_idx))
    /\ last_op' = Op("get_track_by_idx", NoKey, NoClip, track_idx, 0)
    /\ UNCHANGED tracks
    /\ SessionDataFrame

SessionGetClipByIdx(track_idx, clip_idx) ==
    /\ call_result' = Returned(Session_get_clip_by_idx(tracks, track_idx, clip_idx))
    /\ last_op' = Op("get_clip_by_idx", NoKey, <<track_idx, clip_idx>>, 0, 0)
    /\ UNCHANGED tracks
    /\ SessionDataFrame

\* session._add_track(Track(parent=session), position)
SessionAddTrack(position) ==
    /\ FreshUid(tracks) < MaxObjects
    /\ tracks' = Session_add_track(tracks, NewTrack(FreshUid(tracks)), position)
    /\ call_result' = Returned(None)
    /\ last_op' = Op("_add_track", NoKey, NoClip, position, 0)
    /\ SessionDataFrame

\* the pad of slot (track_num, clip_num) released: the clip of the slot is
\* looked up, created and added to the track when there is none, looked up
\* again, and named; naming raises when the second lookup found no clip
PadCreateClip(track_num, clip_num) ==
    LET clip == Session_get_clip_by_idx(tracks, track_num, clip_num)
        track == Session_get_track_by_idx(tracks, track_num)
        k == PyIndex(track_num, Len(tracks))
        ts2 == IF clip = None /\ track # None
               THEN [tracks EXCEPT ![k].clips =
                         Track_add_clip(tracks[k].clips, NewClip(FreshUid(tracks)),
                                        clip_num)]
               ELSE tracks
        clip2 == Session_get_clip_by_idx(ts2, track_num, clip_num)
    IN  /\ FreshUid(tracks) <= MaxObjects
        /\ tracks' = ts2
        /\ call_result' = IF clip2 = None THEN Raised("AttributeError")
                          ELSE Returned(clip2)
        /\ last_op' = Op("pad_create_clip", NoKey, <<track_num, clip_num>>, 0, 0)
        /\ SessionDataFrame

\* ------------------------------------------------- Sequencer: the lists
\* the lists Sequencer.schedule_clip builds for the clip of chord_grid, every
\* voice that holds a note sounding with the amplitude MaxAmplitude
SequencerBuildLists ==
    /\ call_result' =
           Returned(Sequencer_lists(Len(chord_grid), chord_grid,
                                    [i \in 1 .. Len(chord_grid) |->
                                         [v \in 1 .. Len(chord_grid[i]) |-> MaxAmplitude]]))
    /\ last_op' = Op("sequencer_lists", NoKey, NoClip, 0, 0)
    /\ UNCHANGED <<bridge, tracks, output_devices, projectVars, appVars, chord_grid, clip_attrs, timelineVars,
                   tl_tracks, clipVars, sessionVars, mmVars, bar_call>>

\* ------------------------------------------------------------ MidiManager
MMScheduleClip(key, c, found) ==
    LET r == MM_schedule_clip(MMState, key, c, found)
    IN  /\ CanSchedule
        /\ mm_track_schedules' = r.ts
        /\ mm_track_clips' = r.tc
        /\ tl_tracks' = r.tl
        /\ last_op' = NoOp
        /\ UNCHANGED <<bridge, structVars, clip_attrs, timelineVars, clipVars, sessionVars,
                       mm_pending_actions, bar_call>>

MMUnscheduleClip(key) ==
    LET r == MM_unschedule_clip(MMState, key)
    IN  /\ mm_track_schedules' = r.ts
        /\ mm_track_clips' = r.tc
        /\ tl_tracks' = r.tl
        /\ last_op' = Op("mm_unschedule_clip", key, NoClip, 0, 0)
        /\ UNCHANGED <<bridge, structVars, clip_attrs, timelineVars, clipVars, sessionVars,
                       mm_pending_actions, bar_call>>

MMRescheduleClip(key, c, found) ==
    LET r == MM_reschedule_clip(MMState, key, c, found)
    IN  /\ CanSchedule
        /\ mm_track_schedules' = r.ts
        /\ mm_track_clips' = r.tc
        /\ tl_tracks' = r.tl
        /\ last_op' = Op("mm_reschedule_clip", key, c, 0, 0)
        /\ UNCHANGED <<bridge, structVars, clip_attrs, timelineVars, clipVars, sessionVars,
                       mm_pending_actions, bar_call>>

MMScheduleClipStart(c, quantized, found) ==
    /\ IF quantized /\ running
       THEN LET next_beat == MM_get_next_bar_boundary(running, current_time, 1)
            IN  /\ Len(mm_pending_actions) < MaxPending
                /\ will_play_at' = [will_play_at EXCEPT ![c] = next_beat]
                /\ mm_pending_actions' = Append(mm_pending_actions,
                                                PendingEntry(next_beat, "start", c))
                /\ UNCHANGED <<bridge, structVars, clip_attrs, tl_tracks, playing, mm_track_schedules, mm_track_clips>>
       ELSE LET r == MM_schedule_clip(MMState, ObjKey(c[1]), c, found)
            IN  /\ CanSchedule
                /\ mm_track_schedules' = r.ts
                /\ mm_track_clips' = r.tc
                /\ tl_tracks' = r.tl
                /\ playing' = [playing EXCEPT ![c] = TRUE]
                /\ UNCHANGED <<bridge, structVars, clip_attrs, will_play_at, mm_pending_actions>>
    /\ last_op' = NoOp
    /\ UNCHANGED <<bridge, structVars, clip_attrs, timelineVars, will_stop_at, notes, sessionVars, bar_call>>

MMScheduleClipStop(c, quantized) ==
    /\ IF quantized /\ running
       THEN LET next_beat == MM_get_next_bar_boundary(running, current_time, 1)
            IN  /\ Len(mm_pending_actions) < MaxPending
                /\ will_stop_at' = [will_stop_at EXCEPT ![c] = next_beat]
                /\ mm_pending_actions' = Append(mm_pending_actions,
                                                PendingEntry(next_beat, "stop", c))
                /\ UNCHANGED <<bridge, structVars, clip_attrs, tl_tracks, playing, mm_track_schedules, mm_track_clips>>
       ELSE LET r == MM_unschedule_clip(MMState, ObjKey(c[1]))
            IN  /\ mm_track_schedules' = r.ts
                /\ mm_track_clips' = r.tc
                /\ tl_tracks' = r.tl
                /\ playing' = [playing EXCEPT ![c] = FALSE]
                /\ UNCHANGED <<bridge, structVars, clip_attrs, will_stop_at, mm_pending_actions>>
    /\ last_op' = NoOp
    /\ UNCHANGED <<bridge, structVars, clip_attrs, timelineVars, will_play_at, notes, sessionVars, bar_call>>

\* --------------------------------------------------------- specifications
\* the transport and the clip launch surface: PLAY button, pads, scene buttons
\* and the Session calls that start and stop clips
Next ==
    \/ Tick
    \/ SessionStartTimeline
    \/ SessionStopTimeline
    \/ SessionResetTimeline
    \/ MMStartTimeline
    \/ MMStopTimeline
    \/ MMResetTimeline
    \/ \E shift \in BOOLEAN : PlayButton(shift)
    \/ \E c \in Clips : \E q \in BOOLEAN : SessionScheduleClipStart(c, q)
    \/ \E s \in Scenes : ScenePlay(s)
    \/ \E c \in Clips : ClipPlay(c)
    \/ \E c \in Clips : ClipStop(c)

Spec == Init /\ [][Next]_vars

\* the clock thread keeps advancing the beat while the timeline runs
FairSpec == Spec /\ WF_vars(Tick)

\* the clip editor working on clips that are started and stopped meanwhile
NextEdit ==
    \/ \E c \in Clips : \E q \in BOOLEAN : SessionScheduleClipStart(c, q)
    \/ \E c \in Clips : \E q \in BOOLEAN : SessionScheduleClipStop(c, q)
    \/ \E c \in Clips : ClipPlay(c)
    \/ \E c \in Clips : \E k \in KeysOf(c[1]) : \E found \in BOOLEAN :
           SessionScheduleClip(k, c, found)
    \/ \E c \in Clips : \E p \in 0 .. (ClipSteps - 1) : \E n \in NoteValues :
           ClipSetNoteAtPosition(c, p, n)

SpecEdit == Init /\ [][NextEdit]_vars

\* the scheduling bridge called directly, the timeline stopped: the calls go
\* to the Session or to the MidiManager, whichever serves as the bridge
InitBridge ==
    /\ bridge \in {"session", "mm"}
    /\ running = FALSE
    /\ current_time = 0
    /\ InitCommon

NextBridge ==
    \/ bridge = "session" /\ \E c \in Clips : \E k \in KeysOf(c[1]) : \E found \in BOOLEAN :
           SessionScheduleClip(k, c, found)
    \/ bridge = "session" /\ \E k \in ApiKeys : SessionUnscheduleClip(k)
    \/ bridge = "session" /\ \E c \in Clips : \E a \in KeysOf(c[1]) \cup {ClipArg(c)} :
           SessionRescheduleClip(a, c)
    \/ bridge = "session" /\ \E c \in Clips : \E q \in BOOLEAN : SessionScheduleClipStart(c, q)
    \/ bridge = "session" /\ \E c \in Clips : \E q \in BOOLEAN : SessionScheduleClipStop(c, q)
    \/ bridge = "mm" /\ \E c \in Clips : \E k \in KeysOf(c[1]) : \E found \in BOOLEAN :
           MMScheduleClip(k, c, found)
    \/ bridge = "mm" /\ \E k \in ApiKeys : MMUnscheduleClip(k)
    \/ bridge = "mm" /\ \E c \in Clips : \E k \in KeysOf(c[1]) :
           \E found \in BOOLEAN : MMRescheduleClip(k, c, found)
    \/ bridge = "mm" /\ \E c \in Clips : \E q \in BOOLEAN : \E found \in BOOLEAN :
           MMScheduleClipStart(c, q, found)
    \/ bridge = "mm" /\ \E c \in Clips : \E q \in BOOLEAN : MMScheduleClipStop(c, q)

SpecBridge == InitBridge /\ [][NextBridge]_vars

\* get_next_bar_boundary called at any beat, the timeline running or not
InitBar ==
    /\ bridge = "session"
    /\ running \in BOOLEAN
    /\ current_time \in 0 .. (BarMaxBeat * TicksPerBeat)
    /\ InitCommon

CallSessionNextBarBoundary(bpq) ==
    /\ bar_call' = [who |-> "session", bpq |-> bpq, at |-> current_time, on |-> running,
                    out |-> Session_get_next_bar_boundary(running, current_time, bpq)]
    /\ UNCHANGED <<bridge, structVars, clip_attrs, timelineVars, tl_tracks, clipVars, sessionVars, mmVars, last_op>>

CallMMNextBarBoundary(bpq) ==
    /\ bar_call' = [who |-> "mm", bpq |-> bpq, at |-> current_time, on |-> running,
                    out |-> MM_get_next_bar_boundary(running, current_time, bpq)]
    /\ UNCHANGED <<bridge, structVars, clip_attrs, timelineVars, tl_tracks, clipVars, sessionVars, mmVars, last_op>>

NextBar ==
    \/ \E bpq \in 1 .. MaxBarsPerQuantize : CallSessionNextBarBoundary(bpq)
    \/ \E bpq \in 1 .. MaxBarsPerQuantize : CallMMNextBarBoundary(bpq)

SpecBar == InitBar /\ [][NextBar]_vars

\* Sequencer.start_on_next_bar() without the bar-line case: 0 on a bar line
Sequencer_start_on_next_bar_ZeroOnBar(t) == (4 - ((t \div TicksPerBeat) % 4)) % 4

\* Sequencer.start_on_next_bar(): 4 - (int(current_time) % 4), in beats
Sequencer_start_on_next_bar(t) == 4 - ((t \div TicksPerBeat) % 4)

CallStartOnNextBar ==
    /\ bar_call' = [who |-> "seq", bpq |-> 0, at |-> current_time, on |-> running,
                    out |-> Sequencer_start_on_next_bar(current_time)]
    /\ UNCHANGED <<bridge, structVars, clip_attrs, timelineVars, tl_tracks, clipVars, sessionVars,
                   mmVars, last_op>>

\* start_on_next_bar called at any beat while the clock may advance
NextSeq ==
    \/ CallStartOnNextBar
    \/ Tick

SpecSeq == InitBar /\ [][NextSeq]_vars

\* quantized and unquantized starts and stops while the timeline runs, on the
\* Session or on the MidiManager
NextCue ==
    \/ Tick
    \/ bridge = "session" /\ SessionStartTimeline
    \/ bridge = "mm" /\ MMStartTimeline
    \/ bridge = "session" /\ \E c \in Clips : \E q \in BOOLEAN : SessionScheduleClipStart(c, q)
    \/ bridge = "session" /\ \E c \in Clips : \E q \in BOOLEAN : SessionScheduleClipStop(c, q)
    \/ bridge = "mm" /\ \E c \in Clips : \E q \in BOOLEAN : \E found \in BOOLEAN :
           MMScheduleClipStart(c, q, found)
    \/ bridge = "mm" /\ \E c \in Clips : \E q \in BOOLEAN : MMScheduleClipStop(c, q)

SpecCue == InitBridge /\ [][NextCue]_vars

\* the clock thread keeps advancing the beat while the timeline runs
FairCue == SpecCue /\ WF_vars(Tick)

\* one pad of the clip grid and a clip that has lost its track: play/stop and
\* record on either, while the transport runs or not
FirstClip == <<0, 0>>
PadClips == {FirstClip, Orphan}

NextPad ==
    \/ Tick
    \/ \E shift \in BOOLEAN : PlayButton(shift)
    \/ \E q \in BOOLEAN : SessionScheduleClipStart(FirstClip, q)
    \/ \E c \in PadClips : ClipPlayStop(c)
    \/ \E c \in PadClips : ClipRecordOnOff(c)
    \/ ClipPlay(Orphan)
    \/ ClipStop(Orphan)

SpecPad == Init /\ [][NextPad]_vars

\* the content and the length of one clip of the grid, edited through the
\* Clip methods and setters
Lengths == (0 - 1) .. MaxClipLength
StepDivisionValues == {SmallStepDivisions, DefaultStepDivisions}

NextClip ==
    \/ ClipClear(FirstClip)
    \/ ClipDouble(FirstClip)
    \/ \E len \in Lengths : ClipSetLength(FirstClip, len)
    \/ \E d \in StepDivisionValues : ClipSetStepDivisions(FirstClip, d)
    \/ \E p \in 0 .. (ClipSteps - 1) : \E n \in NoteValues :
           ClipSetNoteAtPosition(FirstClip, p, n)

SpecClip == Init /\ [][NextClip]_vars

\* position-addressed access to the arrays of one clip.  The clip starts as
\* the calls clip.step_divisions = SmallStepDivisions; clip.clear() leave a
\* new clip: SmallStepDivisions empty steps
SmallClip == Clip_clear(Clip_set_step_divisions(InitAttrs, SmallStepDivisions))

InitPos ==
    /\ bridge = "session"
    /\ running = FALSE
    /\ current_time = 0
    /\ notes = [InitNotes EXCEPT ![FirstClip] = Rep(None, SmallClip.steps)]
    /\ clip_attrs = [[c \in AllClips |-> InitAttrs] EXCEPT ![FirstClip] = SmallClip]
    /\ InitSession
    /\ InitIdle

Positions(c) == (0 - MaxPosition) .. (clip_attrs[c].steps + MaxPosition)
DurationValues == {None, TicksPerBeat}
VelocityValues == {None, MaxAmplitude}

NextPos ==
    \/ \E w \in {"note", "duration", "amplitude"} : \E p \in Positions(FirstClip) :
           ClipGetAtPosition(FirstClip, w, p)
    \/ \E p \in Positions(FirstClip) : \E n \in NoteValues :
           ClipSetNoteAtPosition(FirstClip, p, n)
    \/ \E p \in Positions(FirstClip) : \E d \in DurationValues :
           ClipSetDurationAtPosition(FirstClip, p, d)
    \/ \E p \in Positions(FirstClip) : \E a \in VelocityValues :
           ClipSetAmplitudeAtPosition(FirstClip, p, a)
    \/ \E p \in Positions(FirstClip) : ClipRemoveSequenceEvent(FirstClip, p)
    \/ \E p \in Positions(FirstClip) : \E n \in NoteValues : \E v \in VelocityValues :
           \E d \in DurationValues : ClipEditSequenceEvent(FirstClip, p, n, v, d)

SpecPos == InitPos /\ [][NextPos]_vars

\* notes added to and removed from the steps of a new clip
NoteSteps == 0 .. MaxPosition

NextNote ==
    \/ \E s \in NoteSteps :
           ClipAddSequenceNoteEvent(FirstClip, s, MidiNote, MaxAmplitude, TicksPerBeat)
    \/ \E s \in NoteSteps : ClipRemoveSequenceEvent(FirstClip, s)
    \/ \E s \in NoteSteps : \E n \in NoteValues : ClipSetNoteAtPosition(FirstClip, s, n)

SpecNote == Init /\ [][NextNote]_vars

\* the tracks list of the session and the clips lists of its tracks, read
\* through the accessors and grown by _add_track and by the clip pads
IndexInputs(len) == {NoIndex, 0 - len - 1, 0 - len, 0 - 1, 0, len - 1, len}
SceneRows == 0 .. NumScenes

NextSession ==
    \/ \E i \in IndexInputs(Len(tracks)) : SessionGetTrackByIdx(i)
    \/ \E i \in IndexInputs(Len(tracks)) : \E j \in IndexInputs(Len(tracks[1].clips)) :
           SessionGetClipByIdx(i, j)
    \/ \E p \in {NoIndex, 0} : SessionAddTrack(p)
    \/ \E t \in Tracks : \E c \in SceneRows : PadCreateClip(t, c)

SpecSession == Init /\ [][NextSession]_vars

\* scheduling with and without a port for the device of the track.  After
\* App.assign_devices_to_tracks a track is bound to a detected port or to a
\* null device; output_devices holds the ports that could be opened
DeviceNames == {"Port", "Null Device"}

\* get_output_device(name of the device of the track of clip c) is not None
DeviceFound(c) == tracks[c[1] + 1].device \in output_devices

InitDevice ==
    /\ bridge \in {"session", "mm"}
    /\ running = FALSE
    /\ current_time = 0
    /\ notes = InitNotes
    /\ clip_attrs = [c \in AllClips |-> InitAttrs]
    /\ \E d \in DeviceNames :
           tracks = [i \in 1 .. SessionTracks |->
                         [InitTracks[i] EXCEPT !.device = IF i - 1 \in Tracks THEN d
                                                          ELSE "Null Device"]]
    /\ output_devices \in SUBSET {"Port"}
    /\ InitIdle

NextDevice ==
    \/ bridge = "session" /\ \E c \in Clips : \E k \in KeysOf(c[1]) :
           SessionScheduleClip(k, c, DeviceFound(c))
    \/ bridge = "mm" /\ \E c \in Clips : \E k \in KeysOf(c[1]) :
           MMScheduleClip(k, c, DeviceFound(c))
    \/ bridge = "session" /\ \E k \in ApiKeys : SessionUnscheduleClip(k)
    \/ bridge = "mm" /\ \E k \in ApiKeys : MMUnscheduleClip(k)
    \/ \E c \in Clips : ClipPlay(c)

SpecDevice == InitDevice /\ [][NextDevice]_vars

\* ------------------------------------------------- saving and loading
ProjectFrame ==
    UNCHANGED <<bridge, output_devices, appVars, chord_grid, clip_attrs, timelineVars,
                tl_tracks, clipVars, sessionVars, mmVars, bar_call>>

\* Sequencer.set_bpm(bpm)
SeqSetBpm(bpm) ==
    /\ seq_settings' = [seq_settings EXCEPT !.bpm = bpm]
    /\ call_result' = Returned(None)
    /\ last_op' = Op("set_bpm", NoKey, NoClip, bpm, 0)
    /\ UNCHANGED <<tracks, project_file>>
    /\ ProjectFrame

\* ProjectManager.save_project(filename)
ProjectSave ==
    /\ project_file' = Project_save(tracks, seq_settings)
    /\ call_result' = Returned(None)
    /\ last_op' = Op("save_project", NoKey, NoClip, 0, 0)
    /\ UNCHANGED <<tracks, seq_settings>>
    /\ ProjectFrame

\* the project file replaced on disk by the document doc
ProjectFileWritten(doc) ==
    /\ project_file' = doc
    /\ call_result' = Returned(None)
    /\ last_op' = Op("file_written", NoKey, NoClip, 0, 0)
    /\ UNCHANGED <<tracks, seq_settings>>
    /\ ProjectFrame

\* ProjectManager.load_project(filename)
ProjectLoad ==
    LET r == Project_load(project_file, tracks, seq_settings)
    IN  /\ FreshUid(tracks) <= 2 * MaxObjects
        /\ tracks' = r.tracks
        /\ seq_settings' = r.seq
        /\ call_result' = Returned(r.ok)
        /\ last_op' = Op("load_project", NoKey, NoClip, 0, 0)
        /\ UNCHANGED project_file
        /\ ProjectFrame

\* a clip with a note, a duration and an amplitude on every step
FilledClip(uid) ==
    [NewClip(uid) EXCEPT
        !.notes = Rep(MidiNote, Len(NewClip(uid).notes)),
        !.durations = Rep(1, Len(NewClip(uid).notes)),
        !.amplitudes = Rep(MaxAmplitude, Len(NewClip(uid).notes))]

\* sessions whose first two tracks have a device or none, the clip of the
\* first track empty or filled
InitProject ==
    /\ bridge = "session"
    /\ running = FALSE
    /\ current_time = 0
    /\ notes = InitNotes
    /\ clip_attrs = [c \in AllClips |-> InitAttrs]
    /\ \E d1 \in {"", "Port"} : \E d2 \in {"", "Port"} : \E filled \in BOOLEAN :
           tracks = [i \in 1 .. SessionTracks |->
                        IF i = 1
                        THEN [InitTracks[i] EXCEPT
                                 !.device = d1,
                                 !.clips = IF filled
                                           THEN <<FilledClip(InitTracks[i].clips[1].uid)>>
                                           ELSE @]
                        ELSE IF i = 2 THEN [InitTracks[i] EXCEPT !.device = d2]
                        ELSE InitTracks[i]]
    /\ output_devices = {"Port"}
    /\ InitIdle

\* tempos the encoder can set
Bpms == {DefaultBpm - 1, DefaultBpm}

\* malformed documents: the saved one with a key string of one word, with a
\* track entry that lacks its index, with a clip entry whose index is out of
\* range
MalformedDocs ==
    LET doc == Project_save(tracks, seq_settings)
    IN  {[doc EXCEPT !.key = <<"C">>],
         [doc EXCEPT !.tracks[2].index = NoIndex],
         [doc EXCEPT !.tracks[2].device = "Port",
                     !.tracks[2].clip_data[1].index = SessionTracks]}

NextProject ==
    \/ \E b \in Bpms : SeqSetBpm(b)
    \/ ProjectSave
    \/ \E doc \in MalformedDocs : ProjectFileWritten(doc)
    \/ ProjectLoad
    \/ PadCreateClip(0, 1)

SpecProject == InitProject /\ [][NextProject]_vars

\* the lists of Sequencer.schedule_clip for every clip of up to MaxChordSteps
\* steps and MaxPolyphony voices
ChordNotes == {None, MidiNote, MidiNote + 1}
ChordGrids ==
    UNION {[1 .. n -> [1 .. MaxPolyphony -> ChordNotes]] : n \in 0 .. MaxChordSteps}

InitChord ==
    /\ bridge = "session"
    /\ running = FALSE
    /\ current_time = 0
    /\ notes = InitNotes
    /\ clip_attrs = [c \in AllClips |-> InitAttrs]
    /\ tracks = InitTracks
    /\ output_devices = {}
    /\ project_file = NoFile
    /\ seq_settings = InitSeqSettings
    /\ midi = InitMidi
    /\ modes = InitModes("pads")
    /\ chord_grid \in ChordGrids
    /\ tl_tracks = {}
    /\ playing = [c \in AllClips |-> FALSE]
    /\ will_play_at = [c \in AllClips |-> NoCue]
    /\ will_stop_at = [c \in AllClips |-> NoCue]
    /\ track_schedules = EmptyMap
    /\ track_clips = EmptyMap
    /\ pending_actions = <<>>
    /\ mm_track_schedules = EmptyMap
    /\ mm_track_clips = EmptyMap
    /\ mm_pending_actions = <<>>
    /\ call_result = Returned(None)
    /\ threads = InitThreads
    /\ last_op = NoOp
    /\ bar_call = NoCall

NextChord == SequencerBuildLists

SpecChord == InitChord /\ [][NextChord]_vars

\* the same operations on the clip that has no track
NextOrphan ==
    \/ ClipClear(Orphan)
    \/ ClipDouble(Orphan)
    \/ \E len \in Lengths : ClipSetLength(Orphan, len)
    \/ \E d \in StepDivisionValues : ClipSetStepDivisions(Orphan, d)
    \/ \E p \in 0 .. (ClipSteps - 1) : \E n \in NoteValues :
           ClipSetNoteAtPosition(Orphan, p, n)

SpecOrphan == Init /\ [][NextOrphan]_vars

\* ------------------------------------------------------- MIDI ports, modes
AppFrame ==
    UNCHANGED <<bridge, tracks, output_devices, projectVars, threads, chord_grid, clip_attrs,
                timelineVars, tl_tracks, clipVars, sessionVars, mmVars, bar_call>>

\* init_midi_in(device_name)
InitMidiIn(device, open_ok) ==
    /\ midi' = [midi EXCEPT !.midi_in = App_init_midi(@, device, open_ok)]
    /\ call_result' = Returned(None)
    /\ last_op' = Op("init_midi_in", NoKey, NoClip, 0, 0)
    /\ UNCHANGED modes
    /\ AppFrame

\* init_midi_out(device_name)
InitMidiOut(device, open_ok) ==
    /\ midi' = [midi EXCEPT !.midi_out = App_init_midi(@, device, open_ok)]
    /\ call_result' = Returned(None)
    /\ last_op' = Op("init_midi_out", NoKey, NoClip, 0, 0)
    /\ UNCHANGED modes
    /\ AppFrame

\* init_notes_midi_in(device_name)
InitNotesMidiIn(device, open_ok) ==
    /\ midi' = [midi EXCEPT !.notes_midi_in = App_init_midi(@, device, open_ok)]
    /\ call_result' = Returned(None)
    /\ last_op' = Op("init_notes_midi_in", NoKey, NoClip, 0, 0)
    /\ UNCHANGED modes
    /\ AppFrame

\* set_midi_out_channel(channel, wrap)
SetMidiOutChannel(channel, wrap) ==
    /\ midi' = [midi EXCEPT !.midi_out_channel = App_set_midi_out_channel(channel, wrap)]
    /\ call_result' = Returned(None)
    /\ last_op' = Op("set_midi_out_channel", NoKey, NoClip, channel, 0)
    /\ UNCHANGED modes
    /\ AppFrame

\* send_midi(msg, use_original_msg_channel)
SendMidi(has_channel, use_original_msg_channel, info) ==
    /\ call_result' = App_send_midi(midi, has_channel, use_original_msg_channel, info)
    /\ last_op' = Op("send_midi", NoKey, NoClip, 0, 0)
    /\ UNCHANGED <<midi, modes>>
    /\ AppFrame

DeviceArgs == {"None", "unmatched", "matched"}
ChannelArgs == {0 - 2, 0 - 1, 0, MaxMidiChannel, MaxMidiChannel + 1}

NextMidi ==
    \/ \E d \in DeviceArgs : \E ok \in BOOLEAN : InitMidiIn(d, ok)
    \/ \E d \in DeviceArgs : \E ok \in BOOLEAN : InitMidiOut(d, ok)
    \/ \E d \in DeviceArgs : \E ok \in BOOLEAN : InitNotesMidiIn(d, ok)
    \/ \E ch \in ChannelArgs : \E wrap \in BOOLEAN : SetMidiOutChannel(ch, wrap)
    \/ \E has_channel \in BOOLEAN : \E orig \in BOOLEAN : \E info \in {None, 0} :
           SendMidi(has_channel, orig, info)

SpecMidi == Init /\ [][NextMidi]_vars

\* a call on the modes: the record afterwards, with the call as history
ModeCall(name, mode, st) ==
    /\ modes' = [st EXCEPT !.call = name, !.arg = mode, !.before = modes.active]
    /\ call_result' = Returned(None)
    /\ last_op' = Op(name, NoKey, NoClip, 0, 0)
    /\ UNCHANGED midi
    /\ AppFrame

SetModeForXorGroup(mode) ==
    ModeCall("set_mode_for_xor_group", mode, App_set_mode_for_xor_group(modes, mode))

UnsetModeForXorGroup(mode) ==
    ModeCall("unset_mode_for_xor_group", mode, App_unset_mode_for_xor_group(modes, mode))

ToggleMelodicRhythmicSliceModes ==
    ModeCall("toggle_melodic_rhythmic_slice_modes", "None",
             App_toggle_melodic_rhythmic_slice_modes(modes))

NextModes ==
    \/ \E mode \in PadsModes \cup MelodicVariants : SetModeForXorGroup(mode)
    \/ \E mode \in PadsModes \cup MelodicVariants : UnsetModeForXorGroup(mode)
    \/ ToggleMelodicRhythmicSliceModes

\* the app after init_modes, the rhythmic and slice notes modes in the 'pads'
\* group or in none
InitApp ==
    /\ bridge = "session"
    /\ running = FALSE
    /\ current_time = 0
    /\ notes = InitNotes
    /\ clip_attrs = [c \in AllClips |-> InitAttrs]
    /\ InitSession
    /\ tl_tracks = {}
    /\ playing = [c \in AllClips |-> FALSE]
    /\ will_play_at = [c \in AllClips |-> NoCue]
    /\ will_stop_at = [c \in AllClips |-> NoCue]
    /\ track_schedules = EmptyMap
    /\ track_clips = EmptyMap
    /\ pending_actions = <<>>
    /\ mm_track_schedules = EmptyMap
    /\ mm_track_clips = EmptyMap
    /\ mm_pending_actions = <<>>
    /\ project_file = NoFile
    /\ seq_settings = InitSeqSettings
    /\ midi = InitMidi
    /\ \E g \in {"pads", "None"} : modes = InitModes(g)
    /\ chord_grid = <<>>
    /\ call_result = Returned(None)
    /\ threads = InitThreads
    /\ last_op = NoOp
    /\ bar_call = NoCall

SpecModes == InitApp /\ [][NextModes]_vars

\* ------------------------------------------------- the bridge, two threads
ThreadFrame ==
    UNCHANGED <<bridge, tracks, output_devices, projectVars, midi, modes, chord_grid,
                clip_attrs, timelineVars, clipVars, pending_actions, mm_pending_actions,
                bar_call>>

\* the registry of the bridge under call
Registry == IF bridge = "session" THEN SessionState ELSE MMState

RegistryStore(st) ==
    /\ tl_tracks' = st.tl
    /\ IF bridge = "session"
       THEN /\ track_schedules' = st.ts
            /\ track_clips' = st.tc
            /\ UNCHANGED <<mm_track_schedules, mm_track_clips>>
       ELSE /\ mm_track_schedules' = st.ts
            /\ mm_track_clips' = st.tc
            /\ UNCHANGED <<track_schedules, track_clips>>

\* a handle is an object: a new one differs from every handle the timeline,
\* the registry or a local of a thread still refers to
HeldHandles ==
    {s.id : s \in tl_tracks} \cup {Registry.ts[k] : k \in DOMAIN Registry.ts}
        \cup {threads[t].schedule : t \in ThreadIds} \cup {threads[t].track : t \in ThreadIds}

NewHandle == CHOOSE i \in 1 .. (Cardinality(HeldHandles) + 1) : i \notin HeldHandles

\* the calls in progress that have not yet scheduled
Scheduling == {t \in ThreadIds : threads[t].op = "schedule_clip" /\ threads[t].track = None}

\* the thread t enters schedule_clip(key, c)
ThreadScheduleClip(t, key, c, found) ==
    /\ threads[t].pc = "idle"
    /\ Cardinality(tl_tracks) + Cardinality(Scheduling) < MaxSchedules
    /\ threads' = [threads EXCEPT ![t] = [InitThread EXCEPT !.pc = "test_schedules",
                                                            !.op = "schedule_clip",
                                                            !.key = key, !.clip = c,
                                                            !.found = found]]
    /\ last_op' = Op("schedule_clip", key, c, 0, 0)
    /\ UNCHANGED <<tl_tracks, track_schedules, track_clips, mm_track_schedules,
                   mm_track_clips, call_result>>
    /\ ThreadFrame

\* the thread t enters unschedule_clip(key)
ThreadUnscheduleClip(t, key) ==
    /\ threads[t].pc = "idle"
    /\ threads' = [threads EXCEPT ![t] = [InitThread EXCEPT !.pc = "test_schedules",
                                                            !.op = "unschedule_clip",
                                                            !.key = key]]
    /\ last_op' = Op("unschedule_clip", key, NoClip, 0, 0)
    /\ UNCHANGED <<tl_tracks, track_schedules, track_clips, mm_track_schedules,
                   mm_track_clips, call_result>>
    /\ ThreadFrame

\* the thread t runs its next statement
ThreadStep(t) ==
    LET r == Bridge_step(Registry, threads[t], bridge, NewHandle)
    IN  /\ threads[t].pc # "idle"
        /\ RegistryStore(r.st)
        /\ threads' = [threads EXCEPT ![t] = r.th]
        /\ call_result' = IF r.raised = "none" THEN call_result ELSE Raised(r.raised)
        /\ UNCHANGED last_op
        /\ ThreadFrame

\* both threads work on the track of the first clip
ThreadKey == StrKey(FirstClip[1])

NextThreads ==
    \/ \E t \in ThreadIds : \E found \in BOOLEAN :
           ThreadScheduleClip(t, ThreadKey, FirstClip, found)
    \/ \E t \in ThreadIds : ThreadUnscheduleClip(t, ThreadKey)
    \/ \E t \in ThreadIds : ThreadStep(t)

SpecThreads == InitBridge /\ [][NextThreads]_vars

\* ================================================================= claims
AllKeys == StrKeys \cup IntKeys \cup ObjKeys
SessionBys == {"session", "reschedule"}
LiveFor(bys, k) == {s \in tl_tracks : s.by \in bys /\ s.key = k}
LiveOnTrack(tl, t) == {s \in tl : s.clip[1] = t}
Bar == BeatsPerBar * TicksPerBeat

\* C1: after any sequence of schedule_clip, unschedule_clip and reschedule_clip
\* calls on a bridge, every track key has at most one schedule live on the
\* timeline.
C1_AtMostOneSchedulePerKey ==
    \A k \in AllKeys :
        /\ Cardinality(LiveFor(SessionBys, k)) <= 1
        /\ Cardinality(LiveFor({"mm"}, k)) <= 1

\* C2: after any number of play() calls on clips of one track, the timeline
\* holds at most one live schedule registered by play() for that track.
C2_PlayKeepsOneSchedulePerTrack ==
    \A t \in Tracks :
        Cardinality({s \in tl_tracks : s.by = "play" /\ s.clip[1] = t}) <= 1

\* C3: once scene_play(s) has been called and the timeline has advanced a full
\* bar beyond the call (past the bar boundary computed for it), the only clips
\* playing are clips at scene index s.
C3_ScenePlayLeavesOnlyScene ==
    (last_op.op = "scene_play" /\ current_time >= last_op.at + Bar)
        => \A c \in Clips : playing[c] => c[2] = last_op.n

\* C4: once play() was called on a clip and the timeline has reached the next
\* bar boundary after the call, the clip is eventually started: will_play_at
\* back to -1.0 and playing True.
C4_PlayCueFires ==
    \A c \in Clips :
        (/\ last_op.op = "play"
         /\ last_op.clip = c
         /\ current_time >= NextBoundary(last_op.at, 1))
            ~> (will_play_at[c] = NoCue /\ playing[c])

\* C5: a clip cued to stop eventually has playing False and will_stop_at back
\* to -1.0, the timeline running or stopped.
C5_StopCueFires ==
    \A c \in Clips :
        (will_stop_at[c] >= 0) ~> (~playing[c] /\ will_stop_at[c] = NoCue)

\* C6: when the notes of a playing clip with a live schedule on its track are
\* changed, the live schedules of that track are torn down and a new schedule
\* carrying the edited notes is on the timeline when the operation returns.
C6_EditReschedules ==
    [][\A c \in Clips :
          (playing[c] /\ notes'[c] # notes[c] /\ LiveOnTrack(tl_tracks, c[1]) # {})
              => /\ \A s \in LiveOnTrack(tl_tracks, c[1]) : s \notin tl_tracks'
                 /\ \E s \in tl_tracks' :
                        /\ s.clip = c
                        /\ s.pattern.ref \/ s.pattern.notes = notes'[c]]_vars

\* C7: reschedule_clip(track_key, clip) leaves track_schedules, track_clips and
\* the timeline's schedules unchanged unless the track key has a live schedule
\* and clip.playing is True.
C7_KeyLive(ts, arg) ==
    IF arg[1] = "clip" THEN StrKey(arg[2]) \in DOMAIN ts ELSE arg \in DOMAIN ts

C7_RescheduleOnlyWhenLiveAndPlaying ==
    [][/\ (/\ last_op'.op = "reschedule_clip"
           /\ ~(C7_KeyLive(track_schedules, last_op'.key)
                /\ playing[last_op'.clip]))
          => UNCHANGED <<track_schedules, track_clips, tl_tracks>>
       /\ (/\ last_op'.op = "mm_reschedule_clip"
           /\ ~(last_op'.key \in DOMAIN mm_track_schedules /\ playing[last_op'.clip]))
          => UNCHANGED <<mm_track_schedules, mm_track_clips, tl_tracks>>]_vars

C7_Witness ==
    /\ last_op.op = "mm_reschedule_clip"
    /\ last_op.key \in DOMAIN mm_track_schedules
    /\ ~playing[last_op.clip]

\* C8: unschedule_clip(track_key) leaves no schedule and no track_clips entry
\* for the key, leaves every other key untouched, changes nothing when the key
\* had nothing scheduled, and a second call changes nothing more.
UnscheduleFrame(ts, tc, tl, ts2, tc2, tl2, k) ==
    /\ k \notin DOMAIN ts2
    /\ k \notin DOMAIN tc2
    /\ DOMAIN ts2 = (DOMAIN ts) \ {k}
    /\ DOMAIN tc2 = (DOMAIN tc) \ {k}
    /\ \A x \in DOMAIN ts2 : ts2[x] = ts[x]
    /\ \A x \in DOMAIN tc2 : tc2[x] = tc[x]
    /\ tl2 = {s \in tl : k \notin DOMAIN ts \/ s.id # ts[k]}
    /\ (k \notin DOMAIN ts /\ k \notin DOMAIN tc) => (ts2 = ts /\ tc2 = tc /\ tl2 = tl)

C8_UnscheduleIdempotent ==
    [][/\ last_op'.op = "unschedule_clip"
          => /\ UnscheduleFrame(track_schedules, track_clips, tl_tracks,
                                track_schedules', track_clips', tl_tracks',
                                last_op'.key)
             /\ Session_unschedule_clip(SessionState', last_op'.key) = SessionState'
             /\ UNCHANGED <<clipVars, mmVars, pending_actions>>
       /\ last_op'.op = "mm_unschedule_clip"
          => /\ UnscheduleFrame(mm_track_schedules, mm_track_clips, tl_tracks,
                                mm_track_schedules', mm_track_clips', tl_tracks',
                                last_op'.key)
             /\ MM_unschedule_clip(MMState', last_op'.key) = MMState'
             /\ UNCHANGED <<clipVars, sessionVars, mm_pending_actions>>]_vars

C8_Witness ==
    /\ last_op.op = "unschedule_clip"
    /\ last_op.key \notin DOMAIN track_schedules
    /\ \E k \in DOMAIN track_schedules : k # last_op.key
    /\ tl_tracks # {}

\* C9: when the timeline is stopped, no per-track schedule remains registered,
\* the timeline holds no clip schedule and no clip is playing.
C9_StopClearsEverything ==
    [][(running /\ ~running')
          => /\ track_schedules' = EmptyMap
             /\ tl_tracks' = {}
             /\ \A c \in Clips : ~playing'[c]]_vars

\* C10 as stated: every get_next_bar_boundary call returns the first multiple
\* of 4*bars_per_quantize beats strictly after the current beat.
IsNextBoundary(out, t, bpq) ==
    /\ out % (Bar * bpq) = 0
    /\ out > t
    /\ out - t <= Bar * bpq

C10_BoundaryAlwaysFuture ==
    bar_call.who # "none" => IsNextBoundary(bar_call.out, bar_call.at, bar_call.bpq)

\* C10 amended: a call made while the timeline is running returns the first
\* multiple of 4*bars_per_quantize beats strictly after the current beat (5.5
\* gives 8.0); a call made while it is not running returns 0.0.
C10_BoundaryFutureWhileRunning ==
    bar_call.who # "none" =>
        /\ bar_call.on => IsNextBoundary(bar_call.out, bar_call.at, bar_call.bpq)
        /\ ~bar_call.on => bar_call.out = 0
        /\ (bar_call.on /\ 2 * bar_call.at = 11 * TicksPerBeat /\ bar_call.bpq = 1)
               => bar_call.out = 8 * TicksPerBeat

C10_Witness ==
    /\ bar_call.who = "session"
    /\ bar_call.on
    /\ bar_call.at = 2 * Bar
    /\ bar_call.bpq = 2
    /\ bar_call.out = 4 * Bar

\* C11: start_on_next_bar() returns, at every beat >= 0, a value in 1..4 equal
\* to 4 - (floor(beat) mod 4): never 0, 4 on a bar line, and floor(beat) plus
\* the result is a multiple of 4.
C11_StartOnNextBarInRange ==
    bar_call.who = "seq" =>
        LET floor_beat == bar_call.at \div TicksPerBeat
        IN  /\ bar_call.out \in 1 .. 4
            /\ bar_call.out + (floor_beat % 4) = 4
            /\ (bar_call.at % (4 * TicksPerBeat) = 0) => bar_call.out = 4
            /\ (floor_beat + bar_call.out) % 4 = 0

C11_Witness ==
    /\ bar_call.who = "seq"
    /\ bar_call.at = 4 * TicksPerBeat
    /\ bar_call.out = 4

\* C12: every entry appended to pending_actions by schedule_clip_start or
\* schedule_clip_stop is removed once the current beat has passed its beat: an
\* entry whose beat is less than the current beat does not stay for ever.
PastEntries(pa) == {i \in 1 .. Len(pa) : pa[i].beat < current_time}

C12_PendingActionsDrain ==
    (PastEntries(pending_actions) # {} \/ PastEntries(mm_pending_actions) # {})
        ~> (PastEntries(pending_actions) = {} /\ PastEntries(mm_pending_actions) = {})

\* C13: play_stop() acts as stop() on a playing clip and as play() otherwise;
\* so when play_stop was pressed on a stopped clip, the bar boundary has passed
\* and play_stop is pressed again, the clip is back in the stopped state.
C13_PlayStopTwiceReturnsToStopped ==
    [][\A c \in Clips :
          (/\ last_op.op = "play_stop"
           /\ last_op.clip = c
           /\ last_op.n = 1
           /\ current_time >= NextBoundary(last_op.at, 1)
           /\ last_op'.op = "play_stop"
           /\ last_op'.clip = c
           /\ last_op' # last_op)
              => Clip_get_status(playing'[c], will_play_at'[c], will_stop_at'[c],
                                 clip_attrs'[c]).play_status = "CLIP_STATUS_STOPPED"]_vars

\* C14: on a clip with no owning track, play(), stop(), play_stop() and
\* record_on_off() leave every field of the clip, the schedule registry, the
\* timeline's schedules and pending_actions unchanged.
C14_OrphanLaunchIgnored ==
    [][/\ playing'[Orphan] = playing[Orphan]
       /\ will_play_at'[Orphan] = will_play_at[Orphan]
       /\ will_stop_at'[Orphan] = will_stop_at[Orphan]
       /\ clip_attrs'[Orphan] = clip_attrs[Orphan]
       /\ last_op'.clip = Orphan
              => UNCHANGED <<tl_tracks, sessionVars, mmVars, clipVars, clip_attrs>>]_vars

C14_Witness ==
    /\ last_op.op = "play_stop"
    /\ last_op.clip = Orphan
    /\ running
    /\ tl_tracks # {}
    /\ Clip_get_status(playing[Orphan], will_play_at[Orphan], will_stop_at[Orphan],
                       clip_attrs[Orphan]) = clip_attrs[Orphan].clip_status

\* C16: record_on_off() on a clip with an owning track flips recording at once,
\* sets neither recording cue, and leaves playing, will_play_at, will_stop_at
\* and the clip content unchanged; so two consecutive calls restore recording.
C16_RecordTogglesOnly ==
    [][\A c \in Clips :
          (/\ last_op'.op = "record_on_off"
           /\ last_op'.clip = c
           /\ last_op' # last_op)
              => /\ clip_attrs'[c].recording = ~clip_attrs[c].recording
                 /\ clip_attrs'[c].will_start_recording_at = NoCue
                 /\ clip_attrs'[c].will_stop_recording_at = NoCue
                 /\ clip_attrs'[c].durations = clip_attrs[c].durations
                 /\ clip_attrs'[c].amplitudes = clip_attrs[c].amplitudes
                 /\ UNCHANGED <<playing, will_play_at, will_stop_at, notes>>]_vars

C16_Witness ==
    /\ last_op.op = "record_on_off"
    /\ last_op.clip = FirstClip
    /\ last_op.n = 1
    /\ ~clip_attrs[FirstClip].recording
    /\ playing[FirstClip]

\* C15: on a clip with no parent track, the mutating operations (clear, double,
\* set_length, the step_divisions setter, set_note_at_position) change neither
\* the content arrays nor any other field of the clip.
C15_OrphanEditIgnored ==
    [][/\ notes'[Orphan] = notes[Orphan]
       /\ clip_attrs'[Orphan].durations = clip_attrs[Orphan].durations
       /\ clip_attrs'[Orphan].amplitudes = clip_attrs[Orphan].amplitudes
       /\ clip_attrs'[Orphan].clip_length_in_beats = clip_attrs[Orphan].clip_length_in_beats
       /\ clip_attrs'[Orphan].step_divisions = clip_attrs[Orphan].step_divisions
       /\ clip_attrs'[Orphan].steps = clip_attrs[Orphan].steps
       /\ clip_attrs'[Orphan].pages = clip_attrs[Orphan].pages]_vars

\* C17: for every clip, once clear() has been called on it, is_empty() returns
\* True.
C17_ClearedClipIsEmpty ==
    \A c \in Clips :
        (last_op.op = "clear" /\ last_op.clip = c)
            => Clip_is_empty(playing[c], will_play_at[c], will_stop_at[c], clip_attrs[c])

\* C18: a call of double() on a clip exactly doubles clip_length_in_beats and
\* steps, leaves the three arrays with the new steps as their length, and keeps
\* the original content in entries 0 .. old steps - 1.
C18_DoubleDoublesLength ==
    [][\A c \in Clips :
          (/\ last_op'.op = "double"
           /\ last_op'.clip = c
           /\ last_op' # last_op)
              => /\ clip_attrs'[c].clip_length_in_beats
                        = 2 * clip_attrs[c].clip_length_in_beats
                 /\ clip_attrs'[c].steps = 2 * clip_attrs[c].steps
                 /\ Len(notes'[c]) = clip_attrs'[c].steps
                 /\ Len(clip_attrs'[c].durations) = clip_attrs'[c].steps
                 /\ Len(clip_attrs'[c].amplitudes) = clip_attrs'[c].steps
                 /\ \A i \in 1 .. clip_attrs[c].steps :
                        /\ i \in DOMAIN notes'[c]
                        /\ i \in DOMAIN notes[c]
                        /\ notes'[c][i] = notes[c][i]]_vars

\* C19: after a mutation of clip_length_in_beats or of step_divisions, the
\* notes, durations and amplitudes arrays all have steps entries.
C19_ArraysFollowSteps ==
    \A c \in Clips :
        (last_op.op \in {"set_length", "step_divisions"} /\ last_op.clip = c)
            => /\ Len(notes[c]) = clip_attrs[c].steps
               /\ Len(clip_attrs[c].durations) = clip_attrs[c].steps
               /\ Len(clip_attrs[c].amplitudes) = clip_attrs[c].steps

\* C20: after a mutation of clip_length_in_beats or of step_divisions, steps is
\* the floor of (clip_length_in_beats / beats_per_bar) * step_divisions and
\* pages is the ceiling of steps / grid width.
C20_StepsIsFloor ==
    \A c \in Clips :
        (last_op.op \in {"set_length", "step_divisions"} /\ last_op.clip = c)
            => /\ clip_attrs[c].steps
                      = (clip_attrs[c].clip_length_in_beats * clip_attrs[c].step_divisions)
                            \div ClipBeatsPerBar
               /\ clip_attrs[c].pages = Ceil(clip_attrs[c].steps, GridWidth)

\* C21: a position-addressed get or set on a clip (get_note/duration/amplitude_
\* at_position, set_note/duration/amplitude_at_position, remove_sequence_event,
\* edit_sequence_event) called with a position outside 0 .. len - 1 raises the
\* out-of-range error and leaves the three arrays of the clip unchanged.
C21_Len(op, c) ==
    IF op \in {"get_duration_at_position", "set_duration_at_position"}
    THEN Len(clip_attrs[c].durations)
    ELSE IF op \in {"get_amplitude_at_position", "set_amplitude_at_position"}
    THEN Len(clip_attrs[c].amplitudes)
    ELSE Len(notes[c])

C21_PositionOps ==
    {"get_note_at_position", "get_duration_at_position", "get_amplitude_at_position",
     "set_note_at_position", "set_duration_at_position", "set_amplitude_at_position",
     "remove_sequence_event", "edit_sequence_event"}

C21_OutOfRangeSignalled ==
    [][\A c \in Clips :
          (/\ last_op'.op \in C21_PositionOps
           /\ last_op'.clip = c
           /\ ~(0 <= last_op'.n /\ last_op'.n < C21_Len(last_op'.op, c)))
              => /\ call_result'.raised = "IndexError"
                 /\ notes'[c] = notes[c]
                 /\ clip_attrs'[c].durations = clip_attrs[c].durations
                 /\ clip_attrs'[c].amplitudes = clip_attrs[c].amplitudes]_vars

\* C22: set_length with a negative or zero value is refused, so that in every
\* reachable state every clip has clip_length_in_beats > 0 and steps >= 0.
C22_LengthStaysPositive ==
    \A c \in Clips :
        /\ clip_attrs[c].clip_length_in_beats > 0
        /\ clip_attrs[c].steps >= 0

\* C23: on a clip with the default length, divisions and steps, adding a note
\* at a step makes the note present at that step, and removing the event of a
\* step makes the step empty; either way every other step keeps its note,
\* duration and amplitude and the arrays keep their length.
C23_OtherStepsKept(c, s) ==
    /\ Len(notes'[c]) = Len(notes[c])
    /\ Len(clip_attrs'[c].durations) = Len(clip_attrs[c].durations)
    /\ Len(clip_attrs'[c].amplitudes) = Len(clip_attrs[c].amplitudes)
    /\ \A i \in 1 .. Len(notes[c]) : i # s + 1 => notes'[c][i] = notes[c][i]

C23_AddThenRemove ==
    [][\A c \in Clips : \A s \in NoteSteps :
          /\ (/\ last_op'.op = "add_sequence_note_event"
              /\ last_op'.clip = c
              /\ last_op'.n = s
              /\ s < Len(notes[c]))
                 => /\ notes'[c][s + 1] = MidiNote
                    /\ C23_OtherStepsKept(c, s)
          /\ (/\ last_op'.op = "remove_sequence_event"
              /\ last_op'.clip = c
              /\ last_op'.n = s
              /\ s < Len(notes[c]))
                 => /\ notes'[c][s + 1] = None
                    /\ C23_OtherStepsKept(c, s)]_vars

\* C24: get_track_by_idx and get_clip_by_idx never raise, and they return a
\* track or a clip only for indexes with 0 <= index < length; for every other
\* index, negative ones and None included, they return None.
C24_AccessorsBoundsChecked ==
    /\ last_op.op \in {"get_track_by_idx", "get_clip_by_idx"}
           => call_result.raised = "none"
    /\ (last_op.op = "get_track_by_idx" /\ call_result.value # None)
           => (0 <= last_op.n /\ last_op.n < Len(tracks))
    /\ (last_op.op = "get_clip_by_idx" /\ call_result.value # None)
           => /\ 0 <= last_op.clip[1]
              /\ last_op.clip[1] < Len(tracks)
              /\ 0 <= last_op.clip[2]
              /\ last_op.clip[2] < Len(tracks[last_op.clip[1] + 1].clips)

\* C25: in every reachable state the session's track list has exactly 8
\* elements.
C25_EightTracks == Len(tracks) = SessionTracks

\* C26: when the pad of an empty slot (track t, scene c) is released, the
\* clip created is the one get_clip_by_idx(t, c) returns afterwards, and every
\* other clip of the track is still at the scene index it had before.
C26_ClipCreatedInItsSlot ==
    [][\A t \in Tracks : \A c \in SceneRows :
          (/\ last_op'.op = "pad_create_clip"
           /\ last_op'.clip = <<t, c>>
           /\ Session_get_clip_by_idx(tracks, t, c) = None)
              => /\ Session_get_clip_by_idx(tracks', t, c) = FreshUid(tracks)
                 /\ \A j \in 0 .. (Len(tracks[t + 1].clips) - 1) :
                        Session_get_clip_by_idx(tracks', t, j)
                            = Session_get_clip_by_idx(tracks, t, j)]_vars

\* C27: while the output device bound to the track of a clip cannot be
\* resolved, scheduling the clip (schedule_clip of the Session or of the
\* MidiManager, Sequencer.schedule_clip on the Clip.play path) registers
\* nothing with the timeline and leaves the track without registry entries.
C27_NoDeviceNoSchedule ==
    \A c \in Clips :
        ~DeviceFound(c)
            => /\ \A s \in tl_tracks : s.clip # c
               /\ \A k \in KeysOf(c[1]) :
                      /\ k \notin DOMAIN track_schedules
                      /\ k \notin DOMAIN track_clips
                      /\ k \notin DOMAIN mm_track_schedules
                      /\ k \notin DOMAIN mm_track_clips

\* C28: the lists Sequencer.schedule_clip builds have one entry per step of
\* the clip; the entry of a step is a rest, with amplitude 0, exactly when no
\* voice of the step holds a note; a step with one note yields that note and
\* a step with several notes one tuple of all of them, in voice order.
C28_StepVoices(i) == {v \in 1 .. Len(chord_grid[i]) : chord_grid[i][v] # None}

C28_OneEntryPerStep ==
    last_op.op = "sequencer_lists"
        => LET lists == call_result.value
           IN  /\ Len(lists) = Len(chord_grid)
               /\ \A i \in 1 .. Len(chord_grid) :
                      /\ lists[i].kind = "rest" <=> C28_StepVoices(i) = {}
                      /\ lists[i].kind = "rest" => lists[i].amplitude = <<0>>
                      /\ lists[i].kind = "note" <=> Cardinality(C28_StepVoices(i)) = 1
                      /\ lists[i].kind = "chord" <=> Cardinality(C28_StepVoices(i)) > 1
                      /\ Len(lists[i].note) = Cardinality(C28_StepVoices(i))
                      /\ \A v \in C28_StepVoices(i) :
                             \E k \in 1 .. Len(lists[i].note) :
                                 lists[i].note[k] = chord_grid[i][v]

C28_Witness ==
    /\ last_op.op = "sequencer_lists"
    /\ Len(chord_grid) = MaxChordSteps
    /\ call_result.value[1].kind = "rest"
    /\ call_result.value[MaxChordSteps].kind = "chord"


\* C29: a load_project that returns False leaves the session as it was
\* before the call: the same tracks with the same clips and devices, and
\* the same bpm, scale and root
C29_FailedLoadRestores ==
    [][(last_op'.op = "load_project" /\ last_op' # last_op
        /\ call_result'.value = FALSE)
       => (tracks' = tracks /\ seq_settings' = seq_settings)]_vars

\* the notes, durations, amplitudes, length, step divisions and beats per
\* bar of a clip
C30_Content(clip) ==
    [clip_length_in_beats |-> clip.clip_length_in_beats,
     step_divisions |-> clip.step_divisions,
     beats_per_bar |-> clip.beats_per_bar,
     notes |-> clip.notes,
     durations |-> clip.durations,
     amplitudes |-> clip.amplitudes]

\* C30: load_project right after save_project leaves at every track and
\* clip index a clip with the notes, durations, amplitudes, length, step
\* divisions and beats per bar it had
C30_SaveLoadRoundTrip ==
    [][(last_op.op = "save_project" /\ last_op'.op = "load_project")
       => \A t \in 1 .. Len(tracks) :
              /\ Len(tracks'[t].clips) = Len(tracks[t].clips)
              /\ \A c \in 1 .. Len(tracks[t].clips) :
                     C30_Content(tracks'[t].clips[c]) = C30_Content(tracks[t].clips[c])]_vars


\* C31: app.midi_in, app.midi_out and app.notes_midi_in are never None, each
\* is an opened port or the null device, and send_midi never raises
C31_PortsNeverNoneSendNeverRaises ==
    /\ midi.midi_in \in {"port", "null"}
    /\ midi.midi_out \in {"port", "null"}
    /\ midi.notes_midi_in \in {"port", "null"}
    /\ last_op.op = "send_midi" => call_result.raised = "none"

\* the modes of the 'pads' xor_group that are active
C32_ActivePads ==
    {i \in 1 .. Len(modes.active) : XorGroup(modes.active[i], modes.variants) = "pads"}

\* C32: after init_modes and any set, unset and toggle calls exactly one mode
\* of the 'pads' xor_group is in active_modes
C32_OnePadsModeActive == Cardinality(C32_ActivePads) = 1


\* the modes that XorGroup puts in the xor_group of mode
C33_SameGroup(mode) ==
    {m \in PadsModes \cup MelodicVariants :
        /\ XorGroup(m, modes.variants) # "None"
        /\ XorGroup(m, modes.variants) = XorGroup(mode, modes.variants)}

\* C33: unset_mode_for_xor_group(A) right after a set_mode_for_xor_group(A)
\* that activated A makes the modes of the group that were active before
\* the set active again and A inactive, and leaves every mode outside the
\* group as it was; an unset for the 'pads' group with no previous mode
\* recorded makes melodic mode active
C33_UnsetRestoresPrevious ==
    [][(modes'.call = "unset_mode_for_xor_group" /\ modes' # modes)
       => /\ (/\ modes.call = "set_mode_for_xor_group"
              /\ modes.arg = modes'.arg
              /\ ~IsModeActive(modes.before, modes.arg)
              /\ \E b \in C33_SameGroup(modes.arg) : IsModeActive(modes.before, b))
             => /\ ~IsModeActive(modes'.active, modes.arg)
                /\ \A b \in C33_SameGroup(modes.arg) \ {modes.arg} :
                       IsModeActive(modes.before, b) => IsModeActive(modes'.active, b)
                /\ \A m \in (PadsModes \cup MelodicVariants \cup OtherModes)
                             \ C33_SameGroup(modes.arg) :
                       IsModeActive(modes'.active, m) <=> IsModeActive(modes.before, m)
          /\ (/\ IsModeActive(modes.active, modes'.arg)
              /\ XorGroup(modes'.arg, modes.variants) = "pads"
              /\ modes.previous = "None")
             => IsModeActive(modes'.active, "melodic_mode")]_vars


\* C34: the schedule_clip_stop that stops a clip at once, after a
\* schedule_clip_start that started it at once, leaves no live schedule of
\* the clip on the timeline and the clip not playing
C34_StopUnschedulesStart ==
    [][\A c \in Clips :
          (playing[c] /\ ~playing'[c]) => ~(\E s \in tl_tracks' : s.clip = c)]_vars


\* a pending action of kind action for clip c at beat is queued
C35_Pending(action, c, beat) ==
    \/ \E i \in 1 .. Len(pending_actions) :
           pending_actions[i] = PendingEntry(beat, action, c)
    \/ \E i \in 1 .. Len(mm_pending_actions) :
           mm_pending_actions[i] = PendingEntry(beat, action, c)

\* C35: a cue timestamp of a clip is -1.0 or the beat of a pending start
\* (for will_play_at) or stop (for will_stop_at) action queued for the clip
C35_CueIsPendingBeat ==
    \A c \in Clips :
        /\ will_play_at[c] = NoCue \/ C35_Pending("start", c, will_play_at[c])
        /\ will_stop_at[c] = NoCue \/ C35_Pending("stop", c, will_stop_at[c])


\* C36: no clip is cued to play and cued to stop at the same time
C36_NoOppositeCues ==
    \A c \in Clips : ~(will_play_at[c] >= 0 /\ will_stop_at[c] >= 0)


\* C37: track_schedules and track_clips of a bridge have the same keys, and
\* every handle in track_schedules is a schedule live on the timeline
C37_RegistryMatchesTimeline ==
    /\ DOMAIN track_schedules = DOMAIN track_clips
    /\ \A k \in DOMAIN track_schedules : \E s \in tl_tracks : s.id = track_schedules[k]
    /\ DOMAIN mm_track_schedules = DOMAIN mm_track_clips
    /\ \A k \in DOMAIN mm_track_schedules :
           \E s \in tl_tracks : s.id = mm_track_schedules[k]

\* a key was unscheduled or scheduled without a device while another key
\* keeps its schedule
C37_Witness ==
    /\ last_op.op \in {"unschedule_clip", "mm_unschedule_clip"}
    /\ last_op.key \notin DOMAIN track_schedules \cup DOMAIN mm_track_schedules
    /\ Cardinality(DOMAIN track_schedules \cup DOMAIN mm_track_schedules) >= 1
    /\ Cardinality(tl_tracks) >= 2


\* C38: after any sequence of clip content operations the notes, durations
\* and amplitudes arrays of a clip have the same length
C38_ArraysSameLength ==
    \A c \in AllClips :
        /\ Len(clip_attrs[c].durations) = Len(notes[c])
        /\ Len(clip_attrs[c].amplitudes) = Len(notes[c])


\* C39: in every reachable state the cached clip_status of a clip equals what
\* get_status() computes from its fields
C39_CachedStatusIsCurrent ==
    \A c \in AllClips :
        clip_attrs[c].clip_status =
            Clip_get_status(playing[c], will_play_at[c], will_stop_at[c], clip_attrs[c])


\* C40: with the control loop and a callback context both inside schedule_clip
\* or unschedule_clip, once both calls are over every schedule live on the
\* timeline is the one track_schedules records for its key: no key has two
\* live schedules and no live schedule is untracked
C40_NoScheduleLostByInterleaving ==
    (\A t \in ThreadIds : threads[t].pc = "idle") =>
        \A s \in tl_tracks :
            /\ s.key \in DOMAIN Registry.ts
            /\ Registry.ts[s.key] = s.id

====
